---- MODULE Spec2Model ----
(***************************************************************************)
(* StampShot (background.js): the capture session of the service worker,   *)
(* the document of the captured tab it acts on through injected scripts,   *)
(* and the preference store.                                               *)
(*                                                                         *)
(* One action is one platform call of the session together with the        *)
(* synchronous code that runs until the next await.  A platform call       *)
(* either succeeds or fails (chrome.runtime.lastError / a rejected         *)
(* promise); a failed injection leaves the document untouched.             *)
(***************************************************************************)
EXTENDS Integers, Sequences, FiniteSets, TLC

(***************************************************************************)
(* Bounds of the model.                                                    *)
(***************************************************************************)
\* page width/height range over 1..MaxPage (pixels)
MaxPage == 3
\* tab (viewport) width/height range over 1..MaxViewport (pixels)
MaxViewport == 2
\* capture requests received in one behaviour
MaxSessions == 2
\* urls are followed for every text of at most MaxUrlLen characters
MaxUrlLen == 3
\* a tiling loop is followed for MaxStuck tiles beyond the grid of its page
MaxStuck == 2
\* header urls are followed for every text of at most MaxHeaderLen characters
MaxHeaderLen == 5
\* header canvases are followed up to MaxAvailable pixels beyond the padding
MaxAvailable == 6

(***************************************************************************)
(* Program constants.                                                      *)
(***************************************************************************)
\* background.js:421  const headerHeight = 50;
headerHeight == 50

\* background.js:455  const padding = 20;
padding == 20

\* The capture requests that can be in flight at once: one per popup that
\* sent {action: "capture"} (background.js:12-14 starts a handler per message).
Slots == {"A", "B"}

\* The elements of the captured document, in document order
\* (querySelectorAll('*'), background.js:336).
ElementOrder == <<"banner", "para", "sidebar", "footer">>
Elements == {ElementOrder[i] : i \in 1..Len(ElementOrder)}

\* Computed position of each element (style.position, background.js:339).
Position == [e \in Elements |-> IF e = "para" THEN "static" ELSE "fixed"]

\* The display value the page's stylesheet gives each element; the computed
\* display when the inline style does not override it (background.js:337).
SheetDisplay == [e \in Elements |-> IF e = "sidebar" THEN "flex" ELSE "block"]

VARIABLES
    page,      \* [W, H, w, h]: scroll size of the document, tab.width/tab.height
    scroll,    \* [x, y]: window.scrollX / window.scrollY
    htmlCss,   \* document.documentElement.style.cssText
    bodyCss,   \* document.body.style.cssText
    elStyle,   \* el.style.display of each element ("" = not set inline)
    elProp,    \* the expando property el.display of each element ("" = absent)
    win,       \* window._originalScrollX/Y, _originalScrollbarStyles, _fixedElements
    owner,     \* history: the request whose call last wrote each global of window
    store,     \* chrome.storage.local
    nextId,    \* the id chrome.downloads.download gives the next download
    remaining, \* capture requests the popup will still send in this behaviour
    tab,       \* the captured tab: its url, the computed font of its body
    clock,     \* what `new Date()` gives: local date, time and timezone offset
    popup,     \* the popup document: open or not, its radios and buttons
    downloads, \* the items of chrome.downloads, by id
    sess,      \* per request: the locals of captureScreenshot and its callees
    obs        \* per request: what happened (history), never read by the program

vars == <<page, scroll, htmlCss, bodyCss, elStyle, elProp, win, owner, store,
          nextId, remaining, tab, clock, popup, downloads, sess, obs>>

\* what no step of a capture writes
envVars == <<tab, clock, popup>>

docVars == <<scroll, htmlCss, bodyCss, elStyle, elProp, win, owner>>

(***************************************************************************)
(* Values.                                                                 *)
(***************************************************************************)
Min(a, b) == IF a < b THEN a ELSE b
Max(a, b) == IF a > b THEN a ELSE b

\* An inline style (cssText) as the text it had when the page was loaded and
\* the value of its overflow property.
NoCss == [text |-> "", overflow |-> ""]

\* window before any capture: none of the three globals is defined.
NoGlobals ==
    [origSet |-> FALSE, origX |-> 0, origY |-> 0,
     stylesSet |-> FALSE, html |-> NoCss, body |-> NoCss,
     fixedElements |-> <<>>]

NoProp == [display |-> "", position |-> ""]

(***************************************************************************)
(* Text.  A JavaScript string is the sequence of its characters.           *)
(***************************************************************************)
Digits == <<"0", "1", "2", "3", "4", "5", "6", "7", "8", "9">>
DigitChars == {Digits[i] : i \in 1..Len(Digits)}
LowerCase ==
    {"a", "b", "c", "d", "e", "f", "g", "h", "i", "j", "k", "l", "m", "n", "o", "p", "q", "r", "s", "t", "u", "v", "w", "x", "y", "z"}
UpperCase ==
    {"A", "B", "C", "D", "E", "F", "G", "H", "I", "J", "K", "L", "M", "N", "O", "P", "Q", "R", "S", "T", "U", "V", "W", "X", "Y", "Z"}

Abs(n) == IF n < 0 THEN -n ELSE n

\* a % b of JavaScript: the remainder has the sign of a
JsRem(a, b) == IF a >= 0 THEN a % b ELSE -((-a) % b)

\* String(n), n.toString() for an integer n >= 0
RECURSIVE String(_)
String(n) ==
    IF n < 10 THEN <<Digits[n + 1]>>
    ELSE String(n \div 10) \o <<Digits[(n % 10) + 1]>>

\* pad (background.js:442) and String(n).padStart(2, '0') (549-553)
pad(num) == LET t == String(num) IN IF Len(t) < 2 THEN <<"0">> \o t ELSE t

StartsWith(t, prefix) ==
    Len(t) >= Len(prefix) /\ SubSeq(t, 1, Len(prefix)) = prefix

\* t.substring(0, n)
substring(t, n) == SubSeq(t, 1, Min(n, Len(t)))

\* the text of the first match of /\d+/ in t, <<>> when there is none
RECURSIVE DigitRun(_, _)
DigitRun(t, i) ==
    IF i <= Len(t) /\ t[i] \in DigitChars
    THEN <<t[i]>> \o DigitRun(t, i + 1)
    ELSE <<>>

matchDigits(t) ==
    IF \E i \in 1..Len(t) : t[i] \in DigitChars
    THEN LET first == CHOOSE i \in 1..Len(t) :
                         /\ t[i] \in DigitChars
                         /\ \A j \in 1..(i - 1) : t[j] \notin DigitChars
         IN DigitRun(t, first)
    ELSE <<>>

\* parseInt of a text of digits
RECURSIVE parseInt(_)
parseInt(t) ==
    IF t = <<>> THEN 0
    ELSE 10 * parseInt(SubSeq(t, 1, Len(t) - 1))
            + (CHOOSE d \in 0..9 : Digits[d + 1] = t[Len(t)])

(***************************************************************************)
(* The filename of a capture: cleanUrlForFilename and saveScreenshot.      *)
(***************************************************************************)
\* background.js:504  function cleanUrlForFilename(url, maxLength = 100)
maxLength == 100

\* .replace(/^www\./, "")
removeWww(t) ==
    IF StartsWith(t, <<"w", "w", "w", ".">>) THEN SubSeq(t, 5, Len(t)) ELSE t

\* .replace(/[^a-zA-Z0-9_\-.]/g, "_")
replaceSpecial(t) ==
    [i \in 1..Len(t) |->
        IF t[i] \in LowerCase \cup UpperCase \cup DigitChars \cup {"_", "-", "."}
        THEN t[i] ELSE "_"]

\* the characters of t at the positions of `kept`, in order
Keep(t, kept) ==
    [j \in 1..Cardinality(kept) |->
        t[CHOOSE i \in kept : Cardinality({k \in kept : k <= i}) = j]]

\* runs of underscores are left as they are
keepUnderscores(t) == t

\* .replace(/_{2,}/g, "_"): every run of underscores keeps its first character
reduceUnderscores(t) ==
    Keep(t, {i \in 1..Len(t) : ~(t[i] = "_" /\ i > 1 /\ t[i - 1] = "_")})

\* .replace(/^_+|_+$/g, "")
trimUnderscores(t) ==
    LET others == {i \in 1..Len(t) : t[i] # "_"}
    IN IF others = {} THEN <<>>
       ELSE SubSeq(t, CHOOSE i \in others : \A k \in others : i <= k,
                      CHOOSE i \in others : \A k \in others : i >= k)

\* cleanUrlForFilename, the inner try: `new URL(url)` gives hostname and
\* pathname, or throws and the raw url is used
hostnameAndPath(url, maxLen) ==
    IF ~url.valid THEN url.href
    ELSE IF url.pathname # <<>> /\ url.pathname # <<"/">>
    THEN LET path0 == IF url.pathname[1] = "/" THEN Tail(url.pathname)
                      ELSE url.pathname
             availableLength == maxLen - Len(url.hostname) - 1
             path == IF availableLength > 3 /\ Len(path0) > availableLength
                     THEN substring(path0, availableLength)
                     ELSE path0
         IN url.hostname \o <<"_">> \o path
    ELSE url.hostname

\* cleanUrlForFilename (background.js:504-544)
cleanUrlForFilename(url, maxLen) ==
    LET cleanUrl == trimUnderscores(reduceUnderscores(replaceSpecial(
                        removeWww(hostnameAndPath(url, maxLen)))))
    IN IF Len(cleanUrl) > maxLen THEN substring(cleanUrl, maxLen) ELSE cleanUrl

\* saveScreenshot lines 548-556: `screenshot-${year}${month}${day}-...`
screenshotFilename(now, url) ==
    <<"s", "c", "r", "e", "e", "n", "s", "h", "o", "t", "-">> \o String(now.year)
        \o pad(now.month + 1) \o pad(now.date) \o <<"-">>
        \o pad(now.hours) \o pad(now.minutes) \o <<"-">>
        \o cleanUrlForFilename(url, maxLength) \o <<".", "p", "n", "g">>

(***************************************************************************)
(* The download request: downloadFile.                                     *)
(***************************************************************************)
includes(t, c) == \E i \in 1..Len(t) : t[i] = c

\* t.split(sep), sep a character
RECURSIVE split(_, _)
split(t, sep) ==
    IF ~includes(t, sep) THEN <<t>>
    ELSE LET i == CHOOSE k \in 1..Len(t) :
                     t[k] = sep /\ \A j \in 1..(k - 1) : t[j] # sep
         IN <<SubSeq(t, 1, i - 1)>> \o split(SubSeq(t, i + 1, Len(t)), sep)

\* part.trim() !== ''
IsBlank(part) == \A i \in 1..Len(part) : part[i] = " "

\* parts.filter(part => part.trim() !== '').pop() || ''
RECURSIVE lastNonBlank(_)
lastNonBlank(parts) ==
    IF parts = <<>> THEN <<>>
    ELSE IF ~IsBlank(parts[Len(parts)]) THEN parts[Len(parts)]
    ELSE lastNonBlank(SubSeq(parts, 1, Len(parts) - 1))

\* downloadFile line 196: the last folder is used
usesLastFolderAlways(saveAs, useDownloadsFolder, lastDownloadFolder) ==
    ~saveAs /\ lastDownloadFolder # <<>>

usesLastFolder(saveAs, useDownloadsFolder, lastDownloadFolder) ==
    ~saveAs /\ ~useDownloadsFolder /\ lastDownloadFolder # <<>>

\* downloadFile lines 197-217: the folder put before the filename
folderPrefix(lastDownloadFolder) ==
    LET parts == IF includes(lastDownloadFolder, "/")
                 THEN split(lastDownloadFolder, "/")
                 ELSE IF includes(lastDownloadFolder, "\\")
                 THEN split(lastDownloadFolder, "\\")
                 ELSE <<>>
        folderPath == IF Len(parts) > 0 THEN lastNonBlank(parts)
                      ELSE lastDownloadFolder
    IN IF folderPath # <<>> /\ folderPath[Len(folderPath)] # "/"
       THEN folderPath \o <<"/">>
       ELSE folderPath

\* downloadFile lines 189-223: the options given to chrome.downloads.download
downloadOptions(filename, saveAs, useDownloadsFolder, lastDownloadFolder) ==
    [filename |->
        IF usesLastFolder(saveAs, useDownloadsFolder, lastDownloadFolder)
        THEN folderPrefix(lastDownloadFolder) \o filename
        ELSE filename,
     saveAs |-> saveAs]

(***************************************************************************)
(* The downloads listener and the preferences of the popup.                *)
(***************************************************************************)
\* parts.join(sep)
RECURSIVE join(_, _)
join(parts, sep) ==
    IF parts = <<>> THEN <<>>
    ELSE IF Len(parts) = 1 THEN parts[1]
    ELSE parts[1] \o <<sep>> \o join(Tail(parts), sep)

\* parts = filename.split(sep); parts.pop()
popped(filename, sep) ==
    LET parts == split(filename, sep) IN SubSeq(parts, 1, Len(parts) - 1)

\* downloads.onChanged lines 684-702: the folder of the file that was saved
savedFolderPath(filename) ==
    LET sep == IF includes(filename, "/") THEN "/"
               ELSE IF includes(filename, "\\") THEN "\\" ELSE ""
        parts == IF sep = "" THEN <<>> ELSE popped(filename, sep)
        folderPath == IF Len(parts) > 0 THEN parts[Len(parts)] ELSE <<>>
    IN IF folderPath = <<>> /\ Len(parts) > 0 THEN join(parts, sep) ELSE folderPath

\* downloads.onChanged (background.js:675-719) for the delta of download id
\* whose file is now `filename`: the store it leaves
onChanged(st, id, current, filename) ==
    IF st.pendingDownloadId # 0 /\ id = st.pendingDownloadId /\ current = "complete"
    THEN LET folderPath == IF filename # <<>> THEN savedFolderPath(filename) ELSE <<>>
         IN [pendingDownloadId |-> 0,
             lastDownloadFolder |-> IF folderPath # <<>> THEN folderPath
                                    ELSE st.lastDownloadFolder,
             saveDestination |-> IF folderPath # <<>> THEN "current"
                                 ELSE st.saveDestination]
    ELSE st

\* getDefaultDownloadsFolder (background.js:616-652): path is the filename of
\* the most recent download, empty when there is none
getDefaultDownloadsFolder(path) ==
    IF includes(path, "/") THEN join(popped(path, "/"), "/")
    ELSE IF includes(path, "\\") THEN join(popped(path, "\\"), "\\")
    ELSE <<>>

\* path.trim()
trim(t) ==
    LET inked == {i \in 1..Len(t) : t[i] # " "}
    IN IF inked = {} THEN <<>>
       ELSE SubSeq(t, CHOOSE i \in inked : \A j \in inked : i <= j,
                      CHOOSE i \in inked : \A j \in inked : i >= j)

\* getFolderNameFromPath (popup.js:108-125); null is the empty text
getFolderNameFromPath(path) ==
    LET p == trim(path)
    IN IF includes(p, "/") THEN lastNonBlank(split(p, "/"))
       ELSE IF includes(p, "\\") THEN lastNonBlank(split(p, "\\"))
       ELSE p

\* a "Current folder" option that is never disabled
currentFolderEnabled(lastDownloadFolder) == FALSE

\* updatePreferences lines 79-87: currentFolderOption.disabled
currentFolderDisabled(lastDownloadFolder) ==
    IF lastDownloadFolder # <<>>
    THEN getFolderNameFromPath(lastDownloadFolder) = <<>>
    ELSE TRUE

\* updatePreferences (popup.js:65-105) with the reply to its
\* getDefaultDownloadsFolder message: the radio buttons and the store it
\* leaves; recent is the filename of the most recent download
updatePreferences(pp, st, recent) ==
    LET saveDestination == IF st.saveDestination = "" THEN "select"
                           ELSE st.saveDestination
        accessible == getDefaultDownloadsFolder(recent) # <<>>
        forced == ~accessible /\ saveDestination = "downloads"
        dest == IF forced THEN "select" ELSE saveDestination
    IN [popup |-> [pp EXCEPT !.dest = dest,
                             !.currentDisabled =
                                 currentFolderDisabled(st.lastDownloadFolder),
                             !.downloadsDisabled = ~accessible],
        store |-> [st EXCEPT !.saveDestination = dest]]

(***************************************************************************)
(* The header: addHeaderToScreenshot and getDefaultFont.                   *)
(***************************************************************************)
\* background.js:465  const ellipsis = "...";
ellipsis == <<".", ".", ".">>

\* the characters the header font draws one pixel wide; every other
\* character is two pixels wide
NarrowChars == {".", ":", "/", "i", "l", " "}

\* ctx.measureText(text).width: the advance widths of the characters add up
measureText(text) ==
    Len(text) + Cardinality({i \in 1..Len(text) : text[i] \notin NarrowChars})

\* addHeaderToScreenshot line 456
availableWidth(canvasWidth) == canvasWidth - padding

\* every url is truncated
exceedsAlways(urlWidth, available) == TRUE

\* addHeaderToScreenshot line 463: the test of the truncation
exceeds(urlWidth, available) == urlWidth > available

\* a loop that leaves no room for the ellipsis
tooWideNoEllipsis(truncatedUrl, ellipsisWidth, available) ==
    measureText(truncatedUrl) > available /\ Len(truncatedUrl) > 0

\* addHeaderToScreenshot line 468: the test of the while loop
tooWide(truncatedUrl, ellipsisWidth, available) ==
    /\ measureText(truncatedUrl) + ellipsisWidth > available
    /\ Len(truncatedUrl) > 0

\* addHeaderToScreenshot lines 468-470: the while loop on truncatedUrl
RECURSIVE truncate(_, _, _)
truncate(truncatedUrl, ellipsisWidth, available) ==
    IF tooWide(truncatedUrl, ellipsisWidth, available)
    THEN truncate(SubSeq(truncatedUrl, 1, Len(truncatedUrl) - 1),
                  ellipsisWidth, available)
    ELSE truncatedUrl

\* addHeaderToScreenshot lines 459-473: displayUrl of urlText on a canvas
displayUrl(urlText, canvasWidth) ==
    LET available == availableWidth(canvasWidth)
        urlWidth == measureText(urlText)
    IN IF exceeds(urlWidth, available)
       THEN truncate(urlText, measureText(ellipsis), available) \o ellipsis
       ELSE urlText

\* addHeaderToScreenshot lines 445-449: the timezone offset of the header;
\* tzOffset is getTimezoneOffset(), UTC minus local time in minutes
tzOffsetFormatted(tzOffset) ==
    LET tzOffsetHours == Abs(tzOffset \div 60)
        tzOffsetMinutes == Abs(JsRem(tzOffset, 60))
        tzOffsetSign == IF tzOffset <= 0 THEN "+" ELSE "-"
    IN <<tzOffsetSign>> \o pad(tzOffsetHours) \o <<":">> \o pad(tzOffsetMinutes)

\* addHeaderToScreenshot line 452: YYYY-MM-DD HH:MM:SS +/-HH:MM
headerDate(now) ==
    String(now.year) \o <<"-">> \o pad(now.month + 1) \o <<"-">>
        \o pad(now.date) \o <<" ">> \o pad(now.hours) \o <<":">>
        \o pad(now.minutes) \o <<":">> \o pad(now.seconds) \o <<" ">>
        \o tzOffsetFormatted(now.tzOffset)

\* '14px Arial, sans-serif'
FallbackFont == <<"1", "4", "p", "x", " ", "A", "r", "i", "a", "l", ",", " ", "s", "a", "n", "s", "-", "s", "e", "r", "i", "f">>

\* getDefaultFont: func (background.js:656-659), on the computed style of body
fontFunc(body) ==
    IF body.font # <<>> THEN body.font
    ELSE String(body.fontSize) \o <<"p", "x", " ">> \o body.fontFamily

\* a font probe without the default: a failed or empty probe gives no font
getDefaultFontNoFallback(outcome, body) ==
    IF outcome = "ok" THEN fontFunc(body) ELSE <<>>

\* getDefaultFont (background.js:655-672): the injection gives the font, gives
\* nothing, or fails
getDefaultFontResult(outcome, body) ==
    IF outcome = "ok" /\ fontFunc(body) # <<>> THEN fontFunc(body)
    ELSE FallbackFont

\* addHeaderToScreenshot line 476:
\* parseInt(defaultFont.match(/\d+/)[0]) || 14; match gives null when the
\* font has no digit, and reading [0] of null throws a TypeError
headerFontSize(defaultFont) ==
    LET m == matchDigits(defaultFont)
    IN IF m = <<>> THEN [threw |-> TRUE, fontSize |-> 0]
       ELSE [threw |-> FALSE,
             fontSize |-> IF parseInt(m) = 0 THEN 14 ELSE parseInt(m)]

(***************************************************************************)
(* The functions injected into the document (the `func` of each            *)
(* chrome.scripting.executeScript call).  Each takes the parts of the      *)
(* document it reads and gives the parts it writes.                        *)
(***************************************************************************)

\* the scroll range of the window.  The page is measured as the larger of
\* the scroll sizes of the root element and of body (background.js:246-247):
\* where the document scrolls in the window the range is
\* [0, W - w] x [0, H - h]; where body is the scroll container of the content
\* the window does not scroll
ScrollRange(pg) ==
    IF tab.scroller = "window"
    THEN [x |-> Max(0, pg.W - pg.w), y |-> Max(0, pg.H - pg.h)]
    ELSE [x |-> 0, y |-> 0]

\* a page that scrolls as far as it is asked to
windowScrollToUnclamped(pg, x, y) == [x |-> Max(0, x), y |-> Max(0, y)]

\* window.scrollTo(x, y): the browser clamps the offset to the scroll range
windowScrollTo(pg, x, y) ==
    [x |-> Max(0, Min(x, ScrollRange(pg).x)),
     y |-> Max(0, Min(y, ScrollRange(pg).y))]

\* getPageDimensions: func
pageDimensionsFunc(pg) == [width |-> pg.W, height |-> pg.H]

\* saveScrollPosition: func
saveScrollFunc(w, sc) ==
    [w EXCEPT !.origSet = TRUE, !.origX = sc.x, !.origY = sc.y]

\* restoreScrollPosition: func
restoreScrollFunc(pg, w, sc) ==
    IF w.origSet THEN windowScrollTo(pg, w.origX, w.origY) ELSE sc

\* window.getComputedStyle(el).display
ComputedDisplay(st, e) == IF st[e] = "" THEN SheetDisplay[e] ELSE st[e]

\* the fixed elements the document shows
ShownFixed(st) ==
    {e \in Elements : Position[e] = "fixed" /\ ComputedDisplay(st, e) # "none"}

IsAlreadyStored(list, e) == \E i \in 1..Len(list) : list[i].element = e

\* hideFixedElementsAndScrollbars: func, the forEach over querySelectorAll('*')
\* from element i on; gives the list and the inline displays it leaves.
RECURSIVE HideScan(_, _, _)
HideScan(i, list, st) ==
    IF i > Len(ElementOrder) THEN [list |-> list, st |-> st]
    ELSE LET el == ElementOrder[i]
             hit == Position[el] = "fixed" /\ ComputedDisplay(st, el) # "none"
             list2 == IF hit /\ ~IsAlreadyStored(list, el)
                      THEN Append(list, [element |-> el,
                                         originalDisplay |-> ComputedDisplay(st, el),
                                         originalPosition |-> Position[el]])
                      ELSE list
             st2 == IF hit THEN [st EXCEPT ![el] = "none"] ELSE st
         IN HideScan(i + 1, list2, st2)

\* a hide that saves the styles and starts the list anew at every call
hideFuncEveryCall(w, html, body, st) ==
    LET scan == HideScan(1, <<>>, st)
    IN [win |-> [w EXCEPT !.stylesSet = TRUE, !.html = html, !.body = body,
                          !.fixedElements = scan.list],
        html |-> [html EXCEPT !.overflow = "hidden"],
        body |-> [body EXCEPT !.overflow = "hidden"],
        st |-> scan.st]

\* hideFixedElementsAndScrollbars: func
hideFunc(w, html, body, st) ==
    LET first == ~w.stylesSet
        w1 == IF first
              THEN [w EXCEPT !.stylesSet = TRUE, !.html = html, !.body = body,
                             !.fixedElements = <<>>]
              ELSE w
        scan == HideScan(1, w1.fixedElements, st)
    IN [win |-> [w1 EXCEPT !.fixedElements = scan.list],
        html |-> IF first THEN [html EXCEPT !.overflow = "hidden"] ELSE html,
        body |-> IF first THEN [body EXCEPT !.overflow = "hidden"] ELSE body,
        st |-> scan.st]

\* restoreFixedElementsAndScrollbars: the forEach over window._fixedElements.
\* It assigns item.element.display and item.element.position: properties of
\* the element object, not of its style.
RECURSIVE RestoreItems(_, _, _)
RestoreItems(i, list, pr) ==
    IF i > Len(list) THEN pr
    ELSE RestoreItems(i + 1, list,
            [pr EXCEPT ![list[i].element] =
                [display |-> list[i].originalDisplay,
                 position |-> list[i].originalPosition]])

\* a restore that does not test whether styles were saved
restoreFixedFuncUnguarded(w, html, body, st, pr) ==
    [win |-> [w EXCEPT !.stylesSet = FALSE, !.html = NoCss, !.body = NoCss,
                       !.fixedElements = <<>>],
     html |-> w.html,
     body |-> w.body,
     st |-> st,
     pr |-> RestoreItems(1, w.fixedElements, pr)]

\* restoreFixedElementsAndScrollbars: func
restoreFixedFunc(w, html, body, st, pr) ==
    IF w.stylesSet
    THEN [win |-> [w EXCEPT !.stylesSet = FALSE, !.html = NoCss, !.body = NoCss,
                            !.fixedElements = <<>>],
          html |-> w.html,
          body |-> w.body,
          st |-> st,
          pr |-> RestoreItems(1, w.fixedElements, pr)]
    ELSE [win |-> w, html |-> html, body |-> body, st |-> st, pr |-> pr]

(***************************************************************************)
(* The capture session: captureScreenshot and its callees.                 *)
(***************************************************************************)
Steps ==
    {"getActiveTabs", "getPageDimensions", "saveScrollPosition", "scrollTo",
     "settle", "getScrollPosition", "hideFixedElementsAndScrollbars", "captureVisiblePart",
     "loadImage", "restoreFixedElementsAndScrollbars", "restoreScrollPosition",
     "getDefaultFont", "download"}

\* the message of the error a failed call rejects with
\* (chrome.runtime.lastError.message; loadImage: background.js:413)
ErrorMessage(step) == IF step = "loadImage" THEN "Failed to load image" ELSE step

NoShot == [x |-> 0, y |-> 0, shown |-> {}, of |-> ""]

\* a snapshot of another tab of the window: nothing of the captured document
OtherShot == [x |-> 0, y |-> 0, shown |-> {}, of |-> "other"]

\* chrome.tabs.captureVisibleTab(null, ...) (background.js:397): a picture of
\* the tab that is active in the current window when it is called; tb is the
\* tab the session acquired, scrolled to sc with the fixed elements `shown`
captureVisibleTab(tb, sc, shown) ==
    IF tb.active
    THEN [x |-> sc.x, y |-> sc.y, shown |-> shown, of |-> "acquired"]
    ELSE OtherShot
NoRet == [kind |-> "none", success |-> FALSE, message |-> "", downloadId |-> 0]

NoOptions == [filename |-> <<>>, saveAs |-> FALSE]

\* the locals of a request that has not started
IdleSess ==
    [pc |-> "idle", fullPage |-> FALSE, saveAs |-> FALSE,
     useDownloadsFolder |-> FALSE, hasTab |-> FALSE,
     width |-> 0, height |-> 0, canvasW |-> 0, canvasH |-> 0,
     currentX |-> 0, currentY |-> 0, isFirstCapture |-> TRUE,
     scrollpos |-> [x |-> 0, y |-> 0], dataUrl |-> NoShot, err |-> "",
     defaultFont |-> <<>>, lineHeight |-> 0, headerDate |-> <<>>,
     displayUrl |-> <<>>,
     headerW |-> 0, headerH |-> 0, filename |-> <<>>, folder |-> <<>>,
     downloadOptions |-> NoOptions, ret |-> NoRet, sent |-> <<>>]

\* the document and the store as a request finds them
NoStart ==
    [scroll |-> [x |-> 0, y |-> 0], htmlCss |-> NoCss, bodyCss |-> NoCss,
     shown |-> {}, store |-> [pendingDownloadId |-> 0,
                              lastDownloadFolder |-> <<>>,
                              saveDestination |-> ""]]

IdleObs ==
    [tiles |-> <<>>, calls |-> [f \in Steps |-> 0], tabQuery |-> "",
     start |-> NoStart,
     saved |-> FALSE, savedScroll |-> [x |-> 0, y |-> 0],
     savedHtml |-> NoCss, savedBody |-> NoCss, savedShown |-> {},
     failStep |-> "", restoreFailed |-> FALSE, fontProbe |-> "",
     dest |-> "", chosen |-> "", req |-> [x |-> 0, y |-> 0],
     created |-> 0, revoked |-> 0]

\* the destination modes of the popup as it sends them (popup.js:161-168):
\* the radio buttons make saveAs and useDownloadsFolder exclusive
Requests ==
    {[fullPage |-> f, saveAs |-> m[1], useDownloadsFolder |-> m[2]] :
        f \in BOOLEAN, m \in {<<TRUE, FALSE>>, <<FALSE, FALSE>>, <<FALSE, TRUE>>}}

\* the requests of a popup set to "Select destination..."
SaveRequests == {r \in Requests : r.saveAs}

\* the requests of two popups open on the same tab, both set to
\* "Select destination...", whose "Capture Full Page" buttons are clicked
ConcurrentRequests == {r \in Requests : r.saveAs /\ r.fullPage}

Called(o, step) == [o EXCEPT !.calls[step] = @ + 1]

\* a captureScreenshot whose catch throws the error on
captureScreenshotRethrow(msg) ==
    [kind |-> "throw", success |-> FALSE, message |-> msg, downloadId |-> 0]

\* captureScreenshot, catch (background.js:70-73): every error becomes a result
captureScreenshotCatch(msg) ==
    [kind |-> "value", success |-> FALSE, message |-> msg, downloadId |-> 0]

\* a captureScreenshot that does not look at the list of tabs
NoActiveTabUnchecked(outcome) == FALSE

\* captureScreenshot: `!tabs || tabs.length === 0` (background.js:59)
NoActiveTab(outcome) == outcome # "tab"

Ceil(a, b) == (a + b - 1) \div b

\* the tiles of a page: ceil(W/w) * ceil(H/h)
GridSize(pg) == Ceil(pg.W, pg.w) * Ceil(pg.H, pg.h)

\* a loop test that leaves the loop one pixel early
LoopTestEarly(current, limit) == current + 1 < limit

\* a loop test that lets the anchor reach the page edge
LoopTestInclusive(current, limit) == current <= limit

\* the tests of the two while loops (background.js:94, 97)
LoopTest(current, limit) == current < limit

\* the loops are left and the header follows at once
loopsLeftNoRestore(sr) == [sr EXCEPT !.pc = "getDefaultFont"]

\* captureFullPageScreenshot lines 131-134: the loops are left and the page
\* state is restored
loopsLeft(sr) == [sr EXCEPT !.pc = "restoreFixedElementsAndScrollbars"]

\* while (currentX < width) { currentY = 0; while (currentY < height) { ...
\* entered with the current anchor; leaves at the next scrollTo or at the
\* restore that follows the loops
RECURSIVE EnterColumn(_, _)
EnterColumn(sr, pg) ==
    IF LoopTest(sr.currentX, sr.width)
    THEN IF LoopTest(0, sr.height)
         THEN [sr EXCEPT !.currentY = 0, !.pc = "scrollTo"]
         ELSE EnterColumn([sr EXCEPT !.currentY = 0,
                                     !.currentX = @ + pg.w], pg)
    ELSE loopsLeft(sr)

\* the loops nested the other way round: the horizontal anchor advances
\* first, and the vertical one when a row is complete
AfterTileRowFirst(sr, pg) ==
    LET sr1 == [sr EXCEPT !.currentX = @ + pg.w]
    IN IF LoopTest(sr1.currentX, sr1.width)
       THEN [sr1 EXCEPT !.pc = "scrollTo"]
       ELSE IF LoopTest(sr1.currentY + pg.h, sr1.height)
            THEN [sr1 EXCEPT !.currentX = 0, !.currentY = @ + pg.h,
                             !.pc = "scrollTo"]
            ELSE [sr1 EXCEPT !.pc = "restoreFixedElementsAndScrollbars"]

\* currentY += tab.height; and the loop tests that follow (background.js:127-131)
AfterTile(sr, pg) ==
    LET sr1 == [sr EXCEPT !.currentY = @ + pg.h]
    IN IF LoopTest(sr1.currentY, sr1.height)
       THEN [sr1 EXCEPT !.pc = "scrollTo"]
       ELSE EnterColumn([sr1 EXCEPT !.currentX = @ + pg.w], pg)

\* a header canvas of the size of the screenshot, without room for the band
headerCanvasNoBand(cw, ch) == [width |-> cw, height |-> ch]

\* addHeaderToScreenshot: the size of newCanvas (background.js:426-427)
headerCanvas(cw, ch) == [width |-> cw, height |-> ch + headerHeight]

\* handleCaptureRequest lines 42-51, run when captureScreenshot has settled:
\* its result, or the error that escaped it, is sent to the requester
handleCaptureRequest(sr) ==
    [sr EXCEPT !.pc = "done",
               !.sent = Append(@, [success |-> sr.ret.success,
                                   message |-> sr.ret.message,
                                   downloadId |-> sr.ret.downloadId])]

\* captureScreenshot returns `ret` (or throws it) to handleCaptureRequest
settled(sr, ret) == handleCaptureRequest([sr EXCEPT !.ret = ret])

\* a catch that throws the error on without restoring the page
fullPageCatchNoRestore(sr, msg) == settled(sr, captureScreenshotCatch(msg))

\* a catch that goes on to the header with the tiles painted so far
fullPageCatchGoesOn(sr, msg) == [sr EXCEPT !.err = msg, !.pc = "getDefaultFont"]

\* captureFullPageScreenshot, catch (background.js:138-143): the error is
\* kept and the restore pair is attempted
fullPageCatch(sr, msg) == [sr EXCEPT !.err = msg, !.pc = "catchRestoreFixed"]

\* every failed call is caught as captureFullPageScreenshot catches it
FailedRestores(sr, step) == fullPageCatch(sr, ErrorMessage(step))

\* a failed call of step `step`: captureFullPageScreenshot catches it;
\* captureVisiblePageScreenshot rethrows it to captureScreenshot (167-170)
Failed(sr, step) ==
    IF sr.fullPage
    THEN fullPageCatch(sr, ErrorMessage(step))
    ELSE settled(sr, captureScreenshotCatch(ErrorMessage(step)))

FailedObs(o, step) ==
    [Called(o, step) EXCEPT !.failStep = IF @ = "" THEN step ELSE @]

(***************************************************************************)
(* Initial state: a loaded document, no capture yet.                       *)
(***************************************************************************)
\* the scenario of the specification: page 3000x4000, viewport 1000x800
ExamplePage == [W |-> 3000, H |-> 4000, w |-> 1000, h |-> 800]

\* every page and viewport size within the bounds, and the scenario
Pages ==
    {[W |-> pw, H |-> ph, w |-> vw, h |-> vh] :
        pw \in 1..MaxPage, ph \in 1..MaxPage,
        vw \in 1..MaxViewport, vh \in 1..MaxViewport}
    \cup {ExamplePage}

\* the documents on which sequences of captures are followed: the scenario,
\* a page that is no multiple of the viewport on either axis, a page of one
\* row, and a page smaller than the viewport
SessionPages ==
    {ExamplePage,
     [W |-> 3, H |-> 3, w |-> 2, h |-> 2],
     [W |-> 2, H |-> 1, w |-> 1, h |-> 1],
     [W |-> 1, H |-> 1, w |-> 2, h |-> 2]}

\* the documents on which two concurrent captures are followed
ConcurrentPages == {[W |-> 2, H |-> 1, w |-> 1, h |-> 1]}

\* the tab of the scenario: https://example.com/products, as `new URL` reads it
ExampleUrl ==
    [href |-> <<"h", "t", "t", "p", "s", ":", "/", "/", "e", "x", "a", "m", "p", "l", "e", ".", "c", "o", "m", "/", "p", "r", "o", "d", "u", "c", "t", "s">>,
     valid |-> TRUE,
     hostname |-> <<"e", "x", "a", "m", "p", "l", "e", ".", "c", "o", "m">>,
     pathname |-> <<"/", "p", "r", "o", "d", "u", "c", "t", "s">>]

\* the computed style of the body: font, font-size in px, font-family
ExampleBody == [font |-> <<"1", "6", "p", "x", " ", "s", "e", "r", "i", "f">>, fontSize |-> 16, fontFamily |-> <<"s", "e", "r", "i", "f">>]

\* the tab of the scenario; its document scrolls in the window, and it is
\* the active tab of its window
ExampleTab ==
    [url |-> ExampleUrl, body |-> ExampleBody, scroller |-> "window",
     active |-> TRUE]

\* 2025-03-09 14:30:00 local time, one hour east of UTC (getMonth() is 2)
ExampleInstant ==
    [year |-> 2025, month |-> 2, date |-> 9, hours |-> 14, minutes |-> 30,
     seconds |-> 0, tzOffset |-> -60]

\* every text of at most n characters of the alphabet
Texts(alphabet, n) == UNION {[1..k -> alphabet] : k \in 0..n}

\* a letter, the characters the cleaning keeps or trims, and one it replaces
UrlAlphabet == {"a", ".", "_", "/"}

\* a url `new URL` rejects: it has no scheme (the empty url is one)
Unparseable(t) == [href |-> t, valid |-> FALSE, hostname |-> <<>>, pathname |-> <<>>]

\* a url `new URL` accepts; only hostname and pathname are read
Parsed(host, path) ==
    [href |-> <<"x", ":", "/", "/">> \o host \o path, valid |-> TRUE,
     hostname |-> host, pathname |-> path]

\* https://www.example.com/, file:///, about:blank, a url of a long path and
\* a long text that is no url
NamedUrls ==
    {ExampleUrl,
     Parsed(<<"w", "w", "w", ".", "e", "x", "a", "m", "p", "l", "e", ".", "c", "o", "m">>, <<"/">>),
     [href |-> <<"f", "i", "l", "e", ":", "/", "/", "/">>, valid |-> TRUE, hostname |-> <<>>, pathname |-> <<"/">>],
     [href |-> <<"a", "b", "o", "u", "t", ":", "b", "l", "a", "n", "k">>, valid |-> TRUE, hostname |-> <<>>,
      pathname |-> <<"b", "l", "a", "n", "k">>],
     Parsed(<<"a", ".", "b">>, <<"/">> \o [i \in 1..(maxLength + 20) |-> "p"]),
     Unparseable([i \in 1..(maxLength + 20) |-> IF i % 3 = 0 THEN "/" ELSE "p"])}

Urls ==
    NamedUrls
    \cup {Unparseable(t) : t \in Texts(UrlAlphabet, MaxUrlLen)}
    \cup {Parsed(host, <<"/">> \o t) :
            host \in {<<>>, <<"a">>, <<"_">>},
            t \in Texts(UrlAlphabet, MaxUrlLen - 1)}

\* the offsets getTimezoneOffset() can give, in minutes: UTC+14:00 to UTC-12:00
TzOffsets == (-14 * 60)..(12 * 60)

Instants ==
    {ExampleInstant,
     [year |-> 2026, month |-> 0, date |-> 1, hours |-> 0, minutes |-> 0,
      seconds |-> 5, tzOffset |-> 300],
     [year |-> 1999, month |-> 11, date |-> 31, hours |-> 23, minutes |-> 59,
      seconds |-> 59, tzOffset |-> 0]}
    \cup {[ExampleInstant EXCEPT !.tzOffset = z] : z \in TzOffsets}

\* computed styles of body: the font shorthand is given or is empty (then
\* font-size and font-family are joined); the computed font-size is a length
\* in px
BodyStyles ==
    {ExampleBody,
     [font |-> <<>>, fontSize |-> 16, fontFamily |-> <<"s", "e", "r", "i", "f">>],
     [font |-> <<>>, fontSize |-> 0, fontFamily |-> <<"s", "e", "r", "i", "f">>],
     [font |-> <<"i", "t", "a", "l", "i", "c", " ", "1", "2", "p", "x", " ", "s", "e", "r", "i", "f">>, fontSize |-> 12, fontFamily |-> <<"s", "e", "r", "i", "f">>],
     [font |-> <<"9", "p", "x", " ", "s", "e", "r", "i", "f">>, fontSize |-> 9, fontFamily |-> <<"s", "e", "r", "i", "f">>]}

\* the tabs and instants on which the header and the filename are followed:
\* one of url, instant and body font varies
SaveInputs ==
    {<<[ExampleTab EXCEPT !.url = u], ExampleInstant>> : u \in Urls}
    \cup {<<ExampleTab, now>> : now \in Instants}
    \cup {<<[ExampleTab EXCEPT !.body = b], ExampleInstant>> : b \in BodyStyles}

\* a page of two tiles
SmallPage == [W |-> 2, H |-> 1, w |-> 1, h |-> 1]

\* the inline displays the page gives its elements: the banner and the
\* sidebar are shown, the footer is hidden by the page itself
InitialStyle == [e \in Elements |-> IF e = "footer" THEN "none" ELSE ""]

InitialHtmlCss == [text |-> "", overflow |-> ""]
InitialBodyCss == [text |-> "margin: 0px;", overflow |-> "auto"]

InitDocument ==
    /\ scroll = [x |-> 0, y |-> 0]
    /\ htmlCss = InitialHtmlCss
    /\ bodyCss = InitialBodyCss
    /\ elStyle = InitialStyle
    /\ elProp = [e \in Elements |-> NoProp]
    /\ win = NoGlobals
    /\ owner = [scroll |-> "none", styles |-> "none"]

InitWorker(n) ==
    /\ store = [pendingDownloadId |-> 0, lastDownloadFolder |-> <<>>,
                saveDestination |-> ""]
    /\ downloads = <<>>
    /\ nextId = 1
    /\ remaining = n
    /\ sess = [s \in Slots |-> IdleSess]
    /\ obs = [s \in Slots |-> IdleObs]

\* statusDiv.textContent: the i18n message `key` with its substitution
Status(key, arg) == [key |-> key, arg |-> arg]

\* setDefaultStatus (popup.js:44-53): the version of the extension
DefaultStatus == Status("version", "")

\* getErrorMessage (popup.js:31-33); no error text is the empty text
getErrorMessage(error) ==
    Status("error", IF error = "" THEN "unknownError" ELSE error)

\* no popup is open; chosen is the destination the user last clicked,
\* disabled the state of both capture buttons, lastError whether the capture
\* message could not be sent
ClosedPopup ==
    [open |-> FALSE, dest |-> "", currentDisabled |-> TRUE,
     downloadsDisabled |-> TRUE, disabled |-> FALSE, waiting |-> FALSE,
     refresh |-> FALSE, chosen |-> "", status |-> DefaultStatus,
     lastError |-> FALSE]

\* a click that leaves the capture buttons enabled
buttonsLeftEnabled(pp) == [pp EXCEPT !.status = Status("capturing", "")]

\* captureScreenshot (popup.js:147-149): both capture buttons are disabled
\* and the status reads 'capturing'
buttonsDisabled(pp) ==
    [pp EXCEPT !.disabled = TRUE, !.status = Status("capturing", "")]

\* a callback that leaves the buttons disabled whatever the response
onResponseKeepsDisabled(pp, response) ==
    IF ~pp.lastError /\ response.success
    THEN [pp EXCEPT !.waiting = FALSE, !.refresh = TRUE,
                    !.status = Status("screenshotSaved", "")]
    ELSE [pp EXCEPT !.waiting = FALSE, !.lastError = FALSE,
                    !.status = getErrorMessage(response.message)]

\* the callback of chrome.runtime.sendMessage (popup.js:169-202) in the popup
\* pp; response is read only when the message was sent
onResponse(pp, response) ==
    IF pp.lastError
    THEN [pp EXCEPT !.waiting = FALSE, !.lastError = FALSE, !.disabled = FALSE,
                    !.status = getErrorMessage("Could not establish connection")]
    ELSE IF response.success
    THEN [pp EXCEPT !.waiting = FALSE, !.refresh = TRUE,
                    !.status = Status("screenshotSaved", "")]
    ELSE [pp EXCEPT !.waiting = FALSE, !.disabled = FALSE,
                    !.status = getErrorMessage(response.message)]

\* the tab and the instant of the scenario; the popup is not followed
InitExample ==
    /\ tab = ExampleTab
    /\ clock = ExampleInstant
    /\ popup = ClosedPopup

\* sequences of captures of one document
Init ==
    page \in SessionPages /\ InitDocument /\ InitWorker(MaxSessions) /\ InitExample

\* one capture of a document of any size within the bounds
InitTiling == page \in Pages /\ InitDocument /\ InitWorker(1) /\ InitExample

\* two popups capture the same document
InitConcurrent ==
    /\ page \in ConcurrentPages
    /\ InitDocument
    /\ InitWorker(Cardinality(Slots))
    /\ tab = [ExampleTab EXCEPT !.url = Parsed(<<"a">>, <<"/">>)]
    /\ clock = ExampleInstant
    /\ popup = ClosedPopup

\* one capture of a document of any size within the bounds, scrolled in the
\* window or in body
InitClamp ==
    /\ page \in Pages \ {ExamplePage}
    /\ InitDocument
    /\ InitWorker(1)
    /\ \E scroller \in {"window", "body"} :
          tab = [ExampleTab EXCEPT !.url = Parsed(<<"a">>, <<"/">>),
                                   !.scroller = scroller]
    /\ clock = ExampleInstant
    /\ popup = ClosedPopup

\* one capture of a two-tile page of any url, instant and body font
InitSave ==
    /\ page = SmallPage
    /\ InitDocument
    /\ InitWorker(1)
    /\ \E input \in SaveInputs : tab = input[1] /\ clock = input[2]
    /\ popup = ClosedPopup

\* the characters of the header urls: a wide one and a narrow one
HeaderAlphabet == {"a", "."}

\* the documents whose header is followed: one tile of every width around the
\* padding, and a page of two columns
HeaderPages ==
    {[W |-> cw, H |-> 1, w |-> cw, h |-> 1] :
        cw \in (padding - 1)..(padding + MaxAvailable)}
    \cup {[W |-> padding + 4, H |-> 2, w |-> padding \div 2 + 2, h |-> 1]}

\* one capture to the downloads folder
HeaderRequests == {r \in Requests : r.useDownloadsFolder}

\* one capture of a page about as wide as the padding, of any short url
InitHeader ==
    /\ page \in HeaderPages
    /\ InitDocument
    /\ InitWorker(1)
    /\ \E t \in Texts(HeaderAlphabet, MaxHeaderLen) :
          tab = [ExampleTab EXCEPT !.url = Unparseable(t)]
    /\ clock = ExampleInstant
    /\ popup = ClosedPopup

\* one capture of a page of two tiles or of one, in a window with other tabs
InitSwitch ==
    /\ page \in {SmallPage, [W |-> 1, H |-> 1, w |-> 1, h |-> 1]}
    /\ InitDocument
    /\ InitWorker(1)
    /\ InitExample

\* where a download of the default folder is saved
DefaultPath == <<"/", "d", "/", "f">>

\* where the user saves a file through the dialog: in a folder of folders of
\* a unix path, in a folder of a windows path, in folders named by a space
\* and with a backslash, and at the root of a file system
SavePaths ==
    {<<"/", "p", "/", "q", "/", "f">>,
     <<"/", "a", "\\", "b", "/", "f">>,
     <<"C", ":", "\\", "p", "\\", "f">>,
     <<"/", " ", "/", "f">>,
     <<"/", "f">>}

\* a popup is opened on a two-tile page; two captures
InitPopup ==
    /\ page = SmallPage
    /\ InitDocument
    /\ InitWorker(Cardinality(Slots))
    /\ tab = [ExampleTab EXCEPT !.url = Parsed(<<"a">>, <<"/">>)]
    /\ clock = ExampleInstant
    /\ popup = ClosedPopup

(***************************************************************************)
(* Actions.                                                                *)
(***************************************************************************)
\* onMessage "capture" (background.js:12-14) -> handleCaptureRequest ->
\* captureScreenshot up to its first await (background.js:57), for the
\* request r; dest is the destination checked in the popup and chosen the
\* one the user last clicked
Begin(s, r, dest, chosen) ==
    /\ sess[s].pc \in {"idle", "done"}
    /\ remaining > 0
    /\ sess' = [sess EXCEPT ![s] =
                   [IdleSess EXCEPT !.pc = "getActiveTabs",
                                    !.fullPage = r.fullPage,
                                    !.saveAs = r.saveAs,
                                    !.useDownloadsFolder = r.useDownloadsFolder]]
    /\ obs' = [obs EXCEPT ![s] =
          [IdleObs EXCEPT !.start = [scroll |-> scroll, htmlCss |-> htmlCss,
                                     bodyCss |-> bodyCss,
                                     shown |-> ShownFixed(elStyle),
                                     store |-> store],
                          !.dest = dest, !.chosen = chosen]]
    /\ remaining' = remaining - 1
    /\ UNCHANGED <<page, tab, clock, downloads, docVars, store, nextId>>

\* a capture request of a popup that is not followed
StartCapture(s, requests) ==
    /\ \E r \in requests : Begin(s, r, "", "")
    /\ UNCHANGED popup

\* getActiveTabs resolves or rejects; captureScreenshot lines 57-65
getActiveTabs(s) ==
    /\ sess[s].pc = "getActiveTabs"
    /\ \E outcome \in {"tab", "empty", "error"} :
          /\ obs' = [obs EXCEPT ![s] =
                        [(IF outcome = "error"
                          THEN FailedObs(@, "getActiveTabs")
                          ELSE Called(@, "getActiveTabs"))
                         EXCEPT !.tabQuery = outcome]]
          /\ sess' = [sess EXCEPT ![s] =
                IF outcome = "error"
                THEN settled(@, captureScreenshotCatch(ErrorMessage("getActiveTabs")))
                ELSE IF NoActiveTab(outcome)
                THEN settled(@, captureScreenshotCatch("noActiveTab"))
                ELSE [@ EXCEPT !.hasTab = TRUE,
                               !.pc = IF sess[s].fullPage THEN "getPageDimensions"
                                      ELSE "captureVisiblePart"]]
    /\ UNCHANGED <<page, envVars, downloads, docVars, store, nextId, remaining>>

\* captureFullPageScreenshot lines 79-85
getPageDimensions(s) ==
    /\ sess[s].pc = "getPageDimensions"
    /\ \E ok \in BOOLEAN :
          IF ok
          THEN /\ sess' = [sess EXCEPT ![s] =
                     LET d == pageDimensionsFunc(page)
                     IN [@ EXCEPT !.width = d.width, !.height = d.height,
                                  !.canvasW = d.width, !.canvasH = d.height,
                                  !.pc = "saveScrollPosition"]]
               /\ obs' = [obs EXCEPT ![s] = Called(@, "getPageDimensions")]
          ELSE /\ sess' = [sess EXCEPT ![s] = Failed(@, "getPageDimensions")]
               /\ obs' = [obs EXCEPT ![s] = FailedObs(@, "getPageDimensions")]
    /\ UNCHANGED <<page, envVars, downloads, docVars, store, nextId, remaining>>

\* captureFullPageScreenshot lines 87-97
saveScrollPosition(s) ==
    /\ sess[s].pc = "saveScrollPosition"
    /\ \E ok \in BOOLEAN :
          IF ok
          THEN /\ win' = saveScrollFunc(win, scroll)
               /\ owner' = [owner EXCEPT !.scroll = s]
               /\ sess' = [sess EXCEPT ![s] =
                     EnterColumn([@ EXCEPT !.currentX = 0, !.currentY = 0,
                                           !.isFirstCapture = TRUE], page)]
               /\ obs' = [obs EXCEPT ![s] =
                     [Called(@, "saveScrollPosition") EXCEPT
                         !.saved = TRUE, !.savedScroll = scroll,
                         !.savedHtml = htmlCss, !.savedBody = bodyCss,
                         !.savedShown = ShownFixed(elStyle)]]
          ELSE /\ sess' = [sess EXCEPT ![s] = Failed(@, "saveScrollPosition")]
               /\ obs' = [obs EXCEPT ![s] = FailedObs(@, "saveScrollPosition")]
               /\ UNCHANGED <<win, owner>>
    /\ UNCHANGED <<page, envVars, downloads, scroll, htmlCss, bodyCss, elStyle, elProp, store,
                   nextId, remaining>>

\* the scroll has resolved and the function goes on without the delay
scrolledNoSettle(sr) == [sr EXCEPT !.pc = "getScrollPosition"]

\* captureFullPageScreenshot lines 98-99: the scroll has resolved and the
\* function waits for the timer
scrolled(sr) == [sr EXCEPT !.pc = "settle"]

\* captureFullPageScreenshot line 98
scrollTo(s) ==
    /\ sess[s].pc = "scrollTo"
    /\ Len(obs[s].tiles) < GridSize(page) + MaxStuck
    /\ \E ok \in BOOLEAN :
          IF ok
          THEN /\ scroll' = windowScrollTo(page, sess[s].currentX, sess[s].currentY)
               /\ sess' = [sess EXCEPT ![s] = scrolled(@)]
               /\ obs' = [obs EXCEPT ![s] =
                     [Called(@, "scrollTo") EXCEPT
                         !.req = [x |-> sess[s].currentX, y |-> sess[s].currentY]]]
          ELSE /\ sess' = [sess EXCEPT ![s] = Failed(@, "scrollTo")]
               /\ obs' = [obs EXCEPT ![s] = FailedObs(@, "scrollTo")]
               /\ scroll' = scroll
    /\ UNCHANGED <<page, envVars, downloads, htmlCss, bodyCss, elStyle, elProp, win, owner, store,
                   nextId, remaining>>

\* captureFullPageScreenshot line 99: the 100 ms timer fires
settle(s) ==
    /\ sess[s].pc = "settle"
    /\ sess' = [sess EXCEPT ![s].pc = "getScrollPosition"]
    /\ obs' = [obs EXCEPT ![s] = Called(@, "settle")]
    /\ UNCHANGED <<page, envVars, downloads, docVars, store, nextId, remaining>>

\* the anchors stay where the scroll was asked for
anchorKept(sr) == sr

\* captureFullPageScreenshot lines 109-110: the anchors take the offset that
\* was read back
anchorFromReadBack(sr) ==
    [sr EXCEPT !.currentX = sr.scrollpos.x, !.currentY = sr.scrollpos.y]

\* captureFullPageScreenshot lines 101-110
getScrollPosition(s) ==
    /\ sess[s].pc = "getScrollPosition"
    /\ \E ok \in BOOLEAN :
          IF ok
          THEN /\ sess' = [sess EXCEPT ![s] =
                     IF ~@.isFirstCapture
                     THEN [@ EXCEPT !.scrollpos = scroll,
                                    !.pc = "hideFixedElementsAndScrollbars"]
                     ELSE anchorFromReadBack(
                              [@ EXCEPT !.scrollpos = scroll,
                                        !.isFirstCapture = FALSE,
                                        !.pc = "captureVisiblePart"])]
               /\ obs' = [obs EXCEPT ![s] = Called(@, "getScrollPosition")]
          ELSE /\ sess' = [sess EXCEPT ![s] = Failed(@, "getScrollPosition")]
               /\ obs' = [obs EXCEPT ![s] = FailedObs(@, "getScrollPosition")]
    /\ UNCHANGED <<page, envVars, downloads, docVars, store, nextId, remaining>>

\* captureFullPageScreenshot lines 104-110
hideFixedElementsAndScrollbars(s) ==
    /\ sess[s].pc = "hideFixedElementsAndScrollbars"
    /\ \E ok \in BOOLEAN :
          IF ok
          THEN LET r == hideFunc(win, htmlCss, bodyCss, elStyle)
               IN /\ win' = r.win
                  /\ owner' = IF win.stylesSet THEN owner
                               ELSE [owner EXCEPT !.styles = s]
                  /\ htmlCss' = r.html
                  /\ bodyCss' = r.body
                  /\ elStyle' = r.st
                  /\ sess' = [sess EXCEPT ![s] =
                        anchorFromReadBack(
                            [@ EXCEPT !.isFirstCapture = FALSE,
                                      !.pc = "captureVisiblePart"])]
                  /\ obs' = [obs EXCEPT ![s] =
                        Called(@, "hideFixedElementsAndScrollbars")]
          ELSE /\ sess' = [sess EXCEPT ![s] =
                     Failed(@, "hideFixedElementsAndScrollbars")]
               /\ obs' = [obs EXCEPT ![s] =
                     FailedObs(@, "hideFixedElementsAndScrollbars")]
               /\ UNCHANGED <<win, owner, htmlCss, bodyCss, elStyle>>
    /\ UNCHANGED <<page, envVars, downloads, scroll, elProp, store, nextId, remaining>>

\* captureVisiblePart (background.js:396-406), called at line 112 and line 154:
\* the snapshot holds what the tab shows at this moment
captureVisiblePart(s) ==
    /\ sess[s].pc = "captureVisiblePart"
    /\ \E ok \in BOOLEAN :
          IF ok
          THEN /\ sess' = [sess EXCEPT ![s] =
                     [@ EXCEPT !.dataUrl =
                                  captureVisibleTab(tab, scroll, ShownFixed(elStyle)),
                               !.pc = "loadImage"]]
               /\ obs' = [obs EXCEPT ![s] = Called(@, "captureVisiblePart")]
          ELSE /\ sess' = [sess EXCEPT ![s] = Failed(@, "captureVisiblePart")]
               /\ obs' = [obs EXCEPT ![s] = FailedObs(@, "captureVisiblePart")]
    /\ UNCHANGED <<page, envVars, downloads, docVars, store, nextId, remaining>>

\* the drawImage call (background.js:119-125, 164): where the snapshot is
\* painted, the anchor that was scrolled to for it, the offset that was read
\* back, and how many hide calls the session had made before it
Tile(sr, o, x, y, pg) ==
    [x |-> x, y |-> y, w |-> pg.w, h |-> pg.h, img |-> sr.dataUrl,
     req |-> o.req, scrollpos |-> sr.scrollpos, hides |-> o.calls["hideFixedElementsAndScrollbars"]]

\* loadImage, then lines 115-131 (full page) or lines 158-166 (visible page)
loadImage(s) ==
    /\ sess[s].pc = "loadImage"
    /\ \E ok \in BOOLEAN :
          IF ok
          THEN /\ sess' = [sess EXCEPT ![s] =
                     IF @.fullPage
                     THEN AfterTile(@, page)
                     ELSE [@ EXCEPT !.canvasW = page.w, !.canvasH = page.h,
                                    !.pc = "getDefaultFont"]]
               /\ obs' = [obs EXCEPT ![s] =
                     [Called(@, "loadImage") EXCEPT !.tiles =
                         Append(@, IF sess[s].fullPage
                                   THEN Tile(sess[s], obs[s], sess[s].currentX,
                                             sess[s].currentY, page)
                                   ELSE Tile(sess[s], obs[s], 0, 0, page))]]
          ELSE /\ sess' = [sess EXCEPT ![s] = Failed(@, "loadImage")]
               /\ obs' = [obs EXCEPT ![s] = FailedObs(@, "loadImage")]
    /\ UNCHANGED <<page, envVars, downloads, docVars, store, nextId, remaining>>

\* the two restore calls, as far as they change the document
RestoreFixedEffect ==
    LET r == restoreFixedFunc(win, htmlCss, bodyCss, elStyle, elProp)
    IN /\ win' = r.win
       /\ owner' = [owner EXCEPT !.styles = "none"]
       /\ htmlCss' = r.html
       /\ bodyCss' = r.body
       /\ elStyle' = r.st
       /\ elProp' = r.pr

RestoreScrollEffect == scroll' = restoreScrollFunc(page, win, scroll)

RestoreFailedObs(o, step) == [FailedObs(o, step) EXCEPT !.restoreFailed = TRUE]

\* captureFullPageScreenshot line 134
restoreFixedElementsAndScrollbars(s) ==
    /\ sess[s].pc = "restoreFixedElementsAndScrollbars"
    /\ \E ok \in BOOLEAN :
          IF ok
          THEN /\ RestoreFixedEffect
               /\ sess' = [sess EXCEPT ![s].pc = "restoreScrollPosition"]
               /\ obs' = [obs EXCEPT ![s] =
                     Called(@, "restoreFixedElementsAndScrollbars")]
          ELSE /\ sess' = [sess EXCEPT ![s] =
                     Failed(@, "restoreFixedElementsAndScrollbars")]
               /\ obs' = [obs EXCEPT ![s] =
                     RestoreFailedObs(@, "restoreFixedElementsAndScrollbars")]
               /\ UNCHANGED <<win, owner, htmlCss, bodyCss, elStyle, elProp>>
    /\ UNCHANGED <<page, envVars, downloads, scroll, store, nextId, remaining>>

\* captureFullPageScreenshot lines 135-137
restoreScrollPosition(s) ==
    /\ sess[s].pc = "restoreScrollPosition"
    /\ \E ok \in BOOLEAN :
          IF ok
          THEN /\ RestoreScrollEffect
               /\ sess' = [sess EXCEPT ![s].pc = "getDefaultFont"]
               /\ obs' = [obs EXCEPT ![s] = Called(@, "restoreScrollPosition")]
          ELSE /\ sess' = [sess EXCEPT ![s] = Failed(@, "restoreScrollPosition")]
               /\ obs' = [obs EXCEPT ![s] =
                     RestoreFailedObs(@, "restoreScrollPosition")]
               /\ scroll' = scroll
    /\ UNCHANGED <<page, envVars, downloads, htmlCss, bodyCss, elStyle, elProp, win, owner, store,
                   nextId, remaining>>

\* captureFullPageScreenshot line 147 and captureScreenshot lines 70-73: the
\* error caught first is thrown again and becomes the result
rethrow(sr) == settled(sr, captureScreenshotCatch(sr.err))

\* captureFullPageScreenshot line 142, and lines 144-147 when it fails
catchRestoreFixed(s) ==
    /\ sess[s].pc = "catchRestoreFixed"
    /\ \E ok \in BOOLEAN :
          IF ok
          THEN /\ RestoreFixedEffect
               /\ sess' = [sess EXCEPT ![s].pc = "catchRestoreScroll"]
               /\ obs' = [obs EXCEPT ![s] =
                     Called(@, "restoreFixedElementsAndScrollbars")]
          ELSE /\ sess' = [sess EXCEPT ![s] = rethrow(@)]
               /\ obs' = [obs EXCEPT ![s] =
                     RestoreFailedObs(@, "restoreFixedElementsAndScrollbars")]
               /\ UNCHANGED <<win, owner, htmlCss, bodyCss, elStyle, elProp>>
    /\ UNCHANGED <<page, envVars, downloads, scroll, store, nextId, remaining>>

\* captureFullPageScreenshot lines 143-147
catchRestoreScroll(s) ==
    /\ sess[s].pc = "catchRestoreScroll"
    /\ \E ok \in BOOLEAN :
          /\ IF ok THEN RestoreScrollEffect ELSE scroll' = scroll
          /\ obs' = [obs EXCEPT ![s] =
                IF ok THEN Called(@, "restoreScrollPosition")
                ELSE RestoreFailedObs(@, "restoreScrollPosition")]
    /\ sess' = [sess EXCEPT ![s] = rethrow(@)]
    /\ UNCHANGED <<page, envVars, downloads, htmlCss, bodyCss, elStyle, elProp, win, owner, store,
                   nextId, remaining>>

\* saveScreenshot line 560: URL.createObjectURL(blob); o counts the blob urls
\* a request has created and revoked
createObjectURL(o) == [o EXCEPT !.created = @ + 1]

\* a blob url that is revoked only when the download was started
revokedUnlessThrown(o, threw) ==
    IF threw THEN o ELSE [o EXCEPT !.revoked = @ + 1]

\* saveScreenshot, finally (lines 576-578): URL.revokeObjectURL(blobUrl),
\* whether the try block returned or threw
revokeObjectURL(o, threw) == [o EXCEPT !.revoked = @ + 1]

\* addHeaderToScreenshot (background.js:419-487) with its getDefaultFont
\* call, then toDataURL and saveScreenshot up to downloadFile's
\* chrome.storage.local.get (line 188)
getDefaultFont(s) ==
    /\ sess[s].pc = "getDefaultFont"
    /\ \E outcome \in {"ok", "empty", "error"} :
          LET font == getDefaultFontResult(outcome, tab.body)
              size == headerFontSize(font)
              c == headerCanvas(sess[s].canvasW, sess[s].canvasH)
          IN IF size.threw
             THEN /\ sess' = [sess EXCEPT ![s] =
                        settled(@, captureScreenshotCatch("TypeError"))]
                  /\ obs' = [obs EXCEPT ![s] = FailedObs(@, "getDefaultFont")]
             ELSE /\ sess' = [sess EXCEPT ![s] =
                        [@ EXCEPT !.defaultFont = font,
                                  !.lineHeight = size.fontSize + 4,
                                  !.headerDate = headerDate(clock),
                                  !.displayUrl = displayUrl(tab.url.href, c.width),
                                  !.headerW = c.width, !.headerH = c.height,
                                  !.filename = screenshotFilename(clock, tab.url),
                                  !.pc = "downloadFile"]]
                  /\ obs' = [obs EXCEPT ![s] =
                        createObjectURL(
                            [Called(@, "getDefaultFont") EXCEPT !.fontProbe = outcome])]
    /\ UNCHANGED <<page, envVars, downloads, docVars, store, nextId, remaining>>

\* saveScreenshot lines 564-570: the saveAs that downloadFile is given
DownloadSaveAs(sr) == IF sr.useDownloadsFolder THEN FALSE ELSE sr.saveAs

\* downloadFile: the callback of chrome.storage.local.get (background.js:188)
downloadFile(s) ==
    /\ sess[s].pc = "downloadFile"
    /\ sess' = [sess EXCEPT ![s] =
          [@ EXCEPT !.folder = store.lastDownloadFolder,
                    !.downloadOptions =
                        downloadOptions(sess[s].filename, DownloadSaveAs(sess[s]),
                                        sess[s].useDownloadsFolder,
                                        store.lastDownloadFolder),
                    !.pc = "download"]]
    /\ UNCHANGED <<page, envVars, downloads, docVars, store, nextId, remaining, obs>>

\* every download is tracked
trackedAlways(st, saveAs, downloadId) == [st EXCEPT !.pendingDownloadId = downloadId]

\* downloadFile lines 231-234: the download of a dialog is tracked
tracked(st, saveAs, downloadId) ==
    IF saveAs THEN [st EXCEPT !.pendingDownloadId = downloadId] ELSE st

\* chrome.downloads.download and its callback (background.js:225-237), then
\* saveScreenshot lines 572-578 and captureScreenshot lines 69-73
download(s) ==
    /\ sess[s].pc = "download"
    /\ \E ok \in BOOLEAN :
          IF ok
          THEN /\ store' = tracked(store, DownloadSaveAs(sess[s]), nextId)
               /\ nextId' = nextId + 1
               /\ downloads' = Append(downloads,
                     [saveAs |-> sess[s].downloadOptions.saveAs,
                      state |-> "in_progress", path |-> <<>>])
               /\ sess' = [sess EXCEPT ![s] =
                     settled(@, [kind |-> "value", success |-> TRUE,
                                 message |-> "", downloadId |-> nextId])]
               /\ obs' = [obs EXCEPT ![s] =
                     revokeObjectURL(Called(@, "download"), FALSE)]
          ELSE /\ sess' = [sess EXCEPT ![s] =
                     settled(@, captureScreenshotCatch(ErrorMessage("download")))]
               /\ obs' = [obs EXCEPT ![s] =
                     revokeObjectURL(FailedObs(@, "download"), TRUE)]
               /\ UNCHANGED <<store, nextId, downloads>>
    /\ UNCHANGED <<page, envVars, docVars, remaining>>

\* the user scrolls the page to its top left or to its bottom right while no
\* capture runs; the locals of the captures that have ended are gone
UserScroll ==
    /\ \A s \in Slots : sess[s].pc \in {"idle", "done"}
    /\ remaining > 0
    /\ \E to \in {windowScrollTo(page, 0, 0), windowScrollTo(page, page.W, page.H)} :
          /\ to # scroll
          /\ scroll' = to
    /\ sess' = [s \in Slots |-> IdleSess]
    /\ obs' = [s \in Slots |-> IdleObs]
    /\ UNCHANGED <<page, envVars, downloads, htmlCss, bodyCss, elStyle, elProp, win, owner, store,
                   nextId, remaining>>

\* the popup opens: DOMContentLoaded, the ping and updatePreferences
\* (popup.js:3-217); the most recent download of the browser is the last of
\* this worker or, when it has none, one made before or none
OpenPopup ==
    /\ ~popup.open
    /\ \E recent \in IF downloads # <<>> THEN {downloads[Len(downloads)].path}
                     ELSE {<<>>, DefaultPath} :
          LET up == updatePreferences(popup, store, recent)
          IN /\ popup' = [up.popup EXCEPT !.open = TRUE, !.disabled = FALSE,
                                          !.waiting = FALSE, !.refresh = FALSE]
             /\ store' = up.store
    /\ UNCHANGED <<page, tab, clock, downloads, docVars, nextId, remaining, sess, obs>>

\* the user clicks a destination that is not disabled (popup.js:220-249)
ClickRadio(d) ==
    /\ popup.open
    /\ d = "current" => ~popup.currentDisabled
    /\ d = "downloads" => ~popup.downloadsDisabled
    /\ popup' = [popup EXCEPT !.dest = d, !.chosen = d]
    /\ store' = [store EXCEPT !.saveDestination = d]
    /\ UNCHANGED <<page, tab, clock, downloads, docVars, nextId, remaining, sess, obs>>

\* the user clicks a capture button: captureScreenshot (popup.js:145-169)
ClickCapture(fullPage) ==
    /\ popup.open
    /\ ~popup.disabled
    /\ Begin("A", [fullPage |-> fullPage, saveAs |-> popup.dest = "select",
                   useDownloadsFolder |-> popup.dest = "downloads"],
             popup.dest, popup.chosen)
    /\ popup' = [buttonsDisabled(popup) EXCEPT !.waiting = TRUE]

\* the user clicks a capture button and the message finds no receiver:
\* captureScreenshot (popup.js:145-169) with chrome.runtime.lastError set for
\* its callback
ClickCaptureUnsent ==
    /\ popup.open
    /\ ~popup.disabled
    /\ remaining > 0
    /\ remaining' = remaining - 1
    /\ popup' = [buttonsDisabled(popup) EXCEPT !.waiting = TRUE,
                                                !.lastError = TRUE]
    /\ UNCHANGED <<page, tab, clock, downloads, docVars, store, nextId, sess, obs>>

\* the response the worker sent last to the popup
LastResponse ==
    IF sess["A"].sent = <<>>
    THEN [success |-> FALSE, message |-> "", downloadId |-> 0]
    ELSE sess["A"].sent[Len(sess["A"].sent)]

\* the response, or the failure to send, reaches the popup that waits for it
\* (popup.js:169-202)
PopupResponse ==
    /\ popup.open
    /\ popup.waiting
    /\ popup.lastError \/ sess["A"].pc = "done"
    /\ popup' = onResponse(popup, LastResponse)
    /\ UNCHANGED <<page, tab, clock, downloads, docVars, store, nextId, remaining,
                   sess, obs>>

\* the timer of popup.js:181-188 runs updatePreferences
RefreshPopup ==
    /\ popup.open
    /\ popup.refresh
    /\ LET up == updatePreferences(popup, store, downloads[Len(downloads)].path)
       IN /\ popup' = [up.popup EXCEPT !.refresh = FALSE]
          /\ store' = up.store
    /\ UNCHANGED <<page, tab, clock, downloads, docVars, nextId, remaining, sess, obs>>

\* the user closes the popup or the timer of popup.js:191 does
ClosePopup ==
    /\ popup.open
    /\ popup' = [ClosedPopup EXCEPT !.chosen = popup.chosen]
    /\ UNCHANGED <<page, tab, clock, downloads, docVars, store, nextId, remaining,
                   sess, obs>>

\* a download ends: the file is saved where the dialog was answered (or in
\* the default folder) or the download is interrupted; downloads.onChanged
\* (background.js:675-719) runs on the change
DownloadChanged(id) ==
    /\ downloads[id].state = "in_progress"
    /\ \E current \in {"complete", "interrupted"} :
       \E filename \in IF current = "interrupted" THEN {<<>>}
                       ELSE IF downloads[id].saveAs THEN SavePaths
                       ELSE {DefaultPath} :
          /\ downloads' = [downloads EXCEPT ![id] =
                [@ EXCEPT !.state = current, !.path = filename]]
          /\ store' = onChanged(store, id, current, filename)
    /\ UNCHANGED <<page, envVars, docVars, nextId, remaining, sess, obs>>

Run(s) ==
    \/ getActiveTabs(s)
    \/ getPageDimensions(s)
    \/ saveScrollPosition(s)
    \/ scrollTo(s)
    \/ settle(s)
    \/ getScrollPosition(s)
    \/ hideFixedElementsAndScrollbars(s)
    \/ captureVisiblePart(s)
    \/ loadImage(s)
    \/ restoreFixedElementsAndScrollbars(s)
    \/ restoreScrollPosition(s)
    \/ catchRestoreFixed(s)
    \/ catchRestoreScroll(s)
    \/ getDefaultFont(s)
    \/ downloadFile(s)
    \/ download(s)

Step(s, requests) == StartCapture(s, requests) \/ Run(s)

\* the captures of one requester on a document the user may scroll
Next == Step("A", Requests) \/ UserScroll

Spec == Init /\ [][Next]_vars

SpecTiling == InitTiling /\ [][Next]_vars

\* the captures of a popup set to "Select destination..."
NextSave == Step("A", SaveRequests) \/ UserScroll

SpecSave == InitSave /\ [][NextSave]_vars

\* the popup, the captures it asks for and the downloads they start
NextPopup ==
    \/ OpenPopup
    \/ \E d \in {"select", "current", "downloads"} : ClickRadio(d)
    \/ \E fullPage \in BOOLEAN : ClickCapture(fullPage)
    \/ ClickCaptureUnsent
    \/ PopupResponse
    \/ RefreshPopup
    \/ ClosePopup
    \/ \E id \in DOMAIN downloads : DownloadChanged(id)
    \/ Run("A")

SpecPopup == InitPopup /\ [][NextPopup]_vars

\* a full-page capture
FullPageRequests == {r \in Requests : r.fullPage}

NextClamp == Step("A", FullPageRequests)

SpecClamp == InitClamp /\ [][NextClamp]_vars

\* a second popup sends a capture request while the first is in flight
NextConcurrent == \E s \in Slots : Step(s, ConcurrentRequests)

SpecConcurrent == InitConcurrent /\ [][NextConcurrent]_vars

\* the user activates another tab of the window, or the captured tab again,
\* while a session that acquired its tab (background.js:57-63) is in flight
SwitchTab ==
    /\ \E s \in Slots : sess[s].hasTab /\ sess[s].pc \notin {"idle", "done"}
    /\ tab' = [tab EXCEPT !.active = ~@]
    /\ UNCHANGED <<page, clock, popup, downloads, docVars, store, nextId,
                   remaining, sess, obs>>

\* one capture while the user changes tabs
NextSwitch == Step("A", Requests) \/ SwitchTab

SpecSwitch == InitSwitch /\ [][NextSwitch]_vars

\* one capture whose header url is followed
NextHeader == Step("A", HeaderRequests)

SpecHeader == InitHeader /\ [][NextHeader]_vars

(***************************************************************************)
(* Properties.                                                             *)
(***************************************************************************)
Snapshots(s) == obs[s].calls["captureVisiblePart"]

\* the two loops of captureFullPageScreenshot have been left normally
TilingDone(s) ==
    /\ sess[s].fullPage
    /\ \/ sess[s].pc \in {"restoreFixedElementsAndScrollbars",
                          "restoreScrollPosition", "getDefaultFont",
                          "downloadFile", "download"}
       \/ sess[s].pc = "done" /\ sess[s].ret.success

\* C1: a full-page capture of a page W x H through a viewport w x h, the
\* page clamping scroll offsets to (W-w, H-h), takes exactly
\* ceil(W/w) * ceil(H/h) snapshots and paints as many tiles; while it runs it
\* never takes more.
C1_TileCount ==
    \A s \in Slots :
        /\ sess[s].fullPage => Snapshots(s) <= GridSize(page)
        /\ TilingDone(s) =>
              /\ Snapshots(s) = GridSize(page)
              /\ Len(obs[s].tiles) = GridSize(page)

\* the scenario: page 3000x4000, viewport 1000x800, 15 snapshots
C1_Witness ==
    /\ page = ExamplePage
    /\ TilingDone("A")
    /\ sess["A"].pc = "done"
    /\ Snapshots("A") = 15
    /\ Len(obs["A"].tiles) = 15

\* tile i is painted before tile j in row-major order: an earlier row, or
\* the same row and further left
RowMajorBefore(a, b) == a.y < b.y \/ (a.y = b.y /\ a.x < b.x)

\* tile i is painted before tile j in column-major order: a column further
\* left, or the same column and higher up
ColumnMajorBefore(a, b) == a.x < b.x \/ (a.x = b.x /\ a.y < b.y)

\* C9 as stated: the tiles of a full-page capture are captured in row-major
\* order, every tile of a row before any tile of the next row.
C9_RowMajor ==
    \A s \in Slots :
        sess[s].fullPage =>
            \A i, j \in 1..Len(obs[s].tiles) :
                i < j => RowMajorBefore(obs[s].tiles[i], obs[s].tiles[j])

\* C9 amended: the tiles of a full-page capture are captured in column-major
\* order, every tile of a column (increasing vertical anchor at a fixed
\* horizontal anchor) before any tile of the next column.
C9_ColumnMajor ==
    \A s \in Slots :
        sess[s].fullPage =>
            \A i, j \in 1..Len(obs[s].tiles) :
                i < j => ColumnMajorBefore(obs[s].tiles[i], obs[s].tiles[j])

\* a finished capture of a page of two columns and two rows, the second
\* column clamped
C9_Witness ==
    /\ page = [W |-> 3, H |-> 3, w |-> 2, h |-> 2]
    /\ TilingDone("A")
    /\ Len(obs["A"].tiles) = 4
    /\ obs["A"].tiles[2].x = 0 /\ obs["A"].tiles[2].y = 1
    /\ obs["A"].tiles[3].x = 1 /\ obs["A"].tiles[3].y = 0

\* the hide calls of the request that ran in the document
HidesDone(s) ==
    obs[s].calls["hideFixedElementsAndScrollbars"]
        - (IF obs[s].failStep = "hideFixedElementsAndScrollbars" THEN 1 ELSE 0)

\* the request has run restoreFixedElementsAndScrollbars and then
\* restoreScrollPosition, both with success, and nothing after them has
\* touched the document
Restored(s) ==
    /\ sess[s].fullPage
    /\ obs[s].saved
    /\ ~obs[s].restoreFailed
    /\ obs[s].calls["restoreScrollPosition"] >= 1
    /\ sess[s].pc \in {"getDefaultFont", "downloadFile", "download", "done"}

\* C2: after saveScrollPosition and one or more hideFixedElementsAndScrollbars
\* calls, restoreFixedElementsAndScrollbars and restoreScrollPosition leave
\* the document as it was before the save: the same scroll offset, the same
\* fixed elements shown, the same inline styles of root and body.
C2_RestoreIdentity ==
    \A s \in Slots :
        (Restored(s) /\ HidesDone(s) >= 1) =>
            /\ scroll = obs[s].savedScroll
            /\ ShownFixed(elStyle) = obs[s].savedShown
            /\ htmlCss = obs[s].savedHtml
            /\ bodyCss = obs[s].savedBody

\* C3: a full-page capture whose restore injections all succeed leaves the
\* document at the scroll offset it had when the capture began, on every
\* exit path and in every capture of a sequence.
C3_ScrollRestored ==
    \A s \in Slots :
        (/\ sess[s].pc = "done"
         /\ sess[s].fullPage
         /\ sess[s].hasTab
         /\ ~obs[s].restoreFailed) => scroll = obs[s].start.scroll

\* the fixed elements the page itself shows
PageShownFixed == ShownFixed(InitialStyle)

\* the hide calls come between the snapshots: none before the first, one
\* before each later one
HideCallOrder ==
    \A s \in Slots :
        sess[s].fullPage =>
            \A i \in 1..Len(obs[s].tiles) : obs[s].tiles[i].hides = i - 1

\* C4: in a full-page capture hideFixedElementsAndScrollbars is not invoked
\* before the first snapshot and is invoked before every later one, so the
\* first tile shows the fixed elements of the page and every later tile
\* shows none.
C4_FirstTileShowsFixed ==
    /\ HideCallOrder
    /\ \A s \in Slots :
          sess[s].fullPage =>
              \A i \in 1..Len(obs[s].tiles) :
                  obs[s].tiles[i].img.shown =
                      IF i = 1 THEN PageShownFixed ELSE {}

\* C5: the composite of a full-page capture is W wide and H + 50 high, (W, H)
\* being the page dimensions the capture read at its start, and the canvas
\* keeps the size W x H from its creation on.
C5_CompositeSize ==
    \A s \in Slots :
        sess[s].fullPage =>
            /\ obs[s].calls["saveScrollPosition"] >= 1 =>
                  /\ sess[s].width = page.W /\ sess[s].height = page.H
                  /\ sess[s].canvasW = sess[s].width
                  /\ sess[s].canvasH = sess[s].height
            /\ sess[s].headerH # 0 =>
                  /\ sess[s].headerW = sess[s].width
                  /\ sess[s].headerH = sess[s].height + headerHeight

\* a saved composite of four tiles
C5_Witness ==
    /\ page = [W |-> 3, H |-> 3, w |-> 2, h |-> 2]
    /\ sess["A"].fullPage /\ sess["A"].pc = "done" /\ sess["A"].ret.success
    /\ Len(obs["A"].tiles) = 4
    /\ sess["A"].headerW = 3 /\ sess["A"].headerH = 53

\* the steps of captureFullPageScreenshot that can fail
FullPageSteps ==
    {"getPageDimensions", "saveScrollPosition", "scrollTo", "getScrollPosition",
     "hideFixedElementsAndScrollbars", "captureVisiblePart", "loadImage",
     "restoreFixedElementsAndScrollbars", "restoreScrollPosition"}

\* the restore at the end of the try block (background.js:134-135)
FinalRestore == {"restoreFixedElementsAndScrollbars", "restoreScrollPosition"}

\* a full-page capture has ended after one of its steps failed
FailedFullPage(s) ==
    /\ sess[s].pc = "done"
    /\ sess[s].fullPage
    /\ obs[s].failStep \in FullPageSteps

\* the response is the failure with the message of the step that failed
FailureSent(s) ==
    sess[s].sent = <<[success |-> FALSE,
                      message |-> ErrorMessage(obs[s].failStep),
                      downloadId |-> 0]>>

\* the times the restore pair was begun
RestoreAttempts(s) == obs[s].calls["restoreFixedElementsAndScrollbars"]

\* C6 as stated: whichever step of a full-page capture fails, the final
\* restore included, the result is the failure with the error's message and
\* the restore pair is attempted exactly once.
C6_RestoreOnce ==
    \A s \in Slots :
        FailedFullPage(s) => FailureSent(s) /\ RestoreAttempts(s) = 1

\* C6 amended: the result is the failure with the message of the step that
\* failed; the restore pair is attempted exactly once when a step before the
\* final restore failed, and a second time, in the catch block, when the
\* final restore itself failed.
C6_RestoreOnceOrTwice ==
    \A s \in Slots :
        FailedFullPage(s) =>
            /\ FailureSent(s)
            /\ RestoreAttempts(s) =
                  IF obs[s].failStep \in FinalRestore THEN 2 ELSE 1

\* the scenario: the snapshot of tile 7 of 15 fails
C6_Witness ==
    /\ page = ExamplePage
    /\ FailedFullPage("A")
    /\ obs["A"].failStep = "captureVisiblePart"
    /\ Len(obs["A"].tiles) = 6
    /\ RestoreAttempts("A") = 1

\* C7: captureScreenshot never throws, and the requester gets exactly one
\* response, {success: true, downloadId} or {success: false, message}: none
\* while the capture runs, one when it has ended.
C7_OneResponse ==
    \A s \in Slots :
        /\ sess[s].pc \notin {"idle", "done"} => sess[s].sent = <<>>
        /\ sess[s].ret.kind # "throw"
        /\ sess[s].pc = "done" =>
              /\ sess[s].ret.kind = "value"
              /\ Len(sess[s].sent) = 1
              /\ \/ /\ sess[s].sent[1].success
                    /\ sess[s].sent[1].downloadId >= 1
                 \/ /\ ~sess[s].sent[1].success
                    /\ sess[s].sent[1].message # ""

\* a capture whose download failed has been answered once, with the failure
C7_Witness ==
    /\ sess["A"].pc = "done"
    /\ obs["A"].failStep = "download"
    /\ sess["A"].sent = <<[success |-> FALSE, message |-> "download",
                           downloadId |-> 0]>>

\* C8: when the tab query gives no tab or fails, the capture ends in failure
\* and has issued no injection, snapshot or download; document and
\* preference store are as the request found them.
C8_NoTabNoCalls ==
    \A s \in Slots :
        (sess[s].pc = "done" /\ obs[s].tabQuery \in {"empty", "error"}) =>
            /\ ~sess[s].ret.success
            /\ sess[s].sent # <<>> /\ ~sess[s].sent[1].success
            /\ \A f \in Steps \ {"getActiveTabs"} : obs[s].calls[f] = 0
            /\ scroll = obs[s].start.scroll
            /\ htmlCss = obs[s].start.htmlCss
            /\ bodyCss = obs[s].start.bodyCss
            /\ ShownFixed(elStyle) = obs[s].start.shown
            /\ store = obs[s].start.store

\* no tab for the second capture, after a first one that was saved through
\* the dialog
C8_Witness ==
    /\ sess["A"].pc = "done"
    /\ obs["A"].tabQuery = "empty"
    /\ sess["A"].sent[1].message = "noActiveTab"
    /\ store.pendingDownloadId = 1

\* the request has saved the scroll offset and has not ended
InFlightSaved(s) == obs[s].saved /\ sess[s].pc \notin {"idle", "done"}

\* C10: what a capture in flight has saved in the document is its own: no
\* other capture of the tab overwrites the saved scroll offset, and the saved
\* styles and element list a capture hides with are those it recorded.
C10_SavedStateOwned ==
    \A s \in Slots :
        /\ InFlightSaved(s) => owner.scroll = s
        /\ (InFlightSaved(s) /\ HidesDone(s) >= 1 /\ win.stylesSet) =>
              owner.styles = s

\* the characters [A-Za-z0-9_.-]
SegmentChars == LowerCase \cup UpperCase \cup DigitChars \cup {"_", ".", "-"}

\* name matches ^screenshot-\d{8}-\d{4}-[A-Za-z0-9_.-]+\.png$
MatchesFilenamePattern(name) ==
    /\ Len(name) >= 25 + 1 + 4
    /\ SubSeq(name, 1, 11) = <<"s", "c", "r", "e", "e", "n", "s", "h", "o", "t", "-">>
    /\ \A i \in 12..19 : name[i] \in DigitChars
    /\ name[20] = "-"
    /\ \A i \in 21..24 : name[i] \in DigitChars
    /\ name[25] = "-"
    /\ \A i \in 26..(Len(name) - 4) : name[i] \in SegmentChars
    /\ SubSeq(name, Len(name) - 3, Len(name)) = <<".", "p", "n", "g">>

\* the capture has made its filename
Named(s) == sess[s].pc \in {"downloadFile", "download"}

\* C11: the filename of a capture is that of its url and instant, and for
\* every url, an empty or unparseable one included, it matches
\* ^screenshot-\d{8}-\d{4}-[A-Za-z0-9_.-]+\.png$: the cleaned source segment
\* is never empty.
C11_FilenamePattern ==
    \A s \in Slots :
        Named(s) =>
            /\ sess[s].filename = screenshotFilename(clock, tab.url)
            /\ MatchesFilenamePattern(sess[s].filename)

\* C12: the capture of https://example.com/products taken on 2025-03-09 at
\* 14:30 local time is saved as
\* screenshot-20250309-1430-example-com_products.png.
C12_ReadmeExample ==
    \A s \in Slots :
        (Named(s) /\ tab.url = ExampleUrl
            /\ clock.year = 2025 /\ clock.month + 1 = 3 /\ clock.date = 9
            /\ clock.hours = 14 /\ clock.minutes = 30) =>
            sess[s].filename = <<"s", "c", "r", "e", "e", "n", "s", "h", "o", "t", "-", "2", "0", "2", "5", "0", "3", "0", "9", "-", "1", "4", "3", "0", "-", "e", "x", "a", "m", "p", "l", "e", "-", "c", "o", "m", "_", "p", "r", "o", "d", "u", "c", "t", "s", ".", "p", "n", "g">>

\* the offset of local time from UTC, in minutes east of UTC, written as sign,
\* two-digit hours and two-digit minutes
OffsetText(east) ==
    <<IF east >= 0 THEN "+" ELSE "-">>
        \o pad(Abs(east) \div 60) \o <<":">> \o pad(Abs(east) % 60)

\* the capture has written its header
Headed(s) == sess[s].headerDate # <<>>

\* C13: the second header line ends with the local timezone offset as sign,
\* two-digit hours and two-digit minutes, and it is the true offset of local
\* time from UTC for every offset in minutes.
C13_TimezoneOffset ==
    \A s \in Slots :
        Headed(s) =>
            LET line == sess[s].headerDate
            IN SubSeq(line, Len(line) - 5, Len(line)) = OffsetText(-clock.tzOffset)

\* the capture has composited its header
Composited(s) == obs[s].calls["getDefaultFont"] >= 1

\* C14: addHeaderToScreenshot never fails: whatever the font probe gives (an
\* injection error, nothing, or the font of the page) the capture goes on
\* with a header canvas, and the font is '14px Arial, sans-serif' when the
\* probe gave nothing.
C14_CompositingNeverFails ==
    \A s \in Slots :
        /\ obs[s].failStep # "getDefaultFont"
        /\ Composited(s) =>
              /\ sess[s].pc \in {"downloadFile", "download", "done"}
              /\ sess[s].headerW = sess[s].canvasW
              /\ sess[s].headerH = sess[s].canvasH + headerHeight
              /\ sess[s].lineHeight > 4
              /\ obs[s].fontProbe \in {"empty", "error"} =>
                    sess[s].defaultFont = FallbackFont
              /\ obs[s].fontProbe = "ok" =>
                    sess[s].defaultFont = fontFunc(tab.body)

\* the injection of the font probe failed, and the capture was saved with
\* the default font and a line height of 14 + 4
C14_Witness ==
    /\ sess["A"].pc = "done"
    /\ sess["A"].ret.success
    /\ obs["A"].fontProbe = "error"
    /\ sess["A"].defaultFont = FallbackFont
    /\ sess["A"].lineHeight = 18

\* the download request of s has been built
Requested(s) == sess[s].downloadOptions # NoOptions

\* C15: while "Select destination..." is the destination the user chose and
\* the user has not clicked another one, every capture, over successive
\* captures and openings of the popup, asks for its download with the
\* save-location prompt (saveAs = true).
C15_SelectAlwaysPrompts ==
    \A s \in Slots :
        (obs[s].chosen = "select" /\ Requested(s))
            => sess[s].downloadOptions.saveAs

Separators == {"/", "\\"}

\* the last run of characters of a path that holds no separator
LastNonEmptySegment(path) ==
    LET inside == {i \in 1..Len(path) : path[i] \notin Separators}
    IN IF inside = {} THEN <<>>
       ELSE LET last == CHOOSE i \in inside : \A j \in inside : j <= i
                first == CHOOSE i \in 1..last :
                            /\ \A j \in i..last : j \in inside
                            /\ i > 1 => (i - 1) \notin inside
            IN SubSeq(path, first, last)

C17_LoopAdvances ==
    \A s \in Slots :
        sess[s].fullPage =>
            \A i, j \in 1..Len(obs[s].tiles) :
                i < j => obs[s].tiles[i].req # obs[s].tiles[j].req

\* the pixel (px, py) of the canvas lies in a rectangle painted by s
Painted(s, px, py) ==
    \E i \in 1..Len(obs[s].tiles) :
        LET tile == obs[s].tiles[i]
        IN /\ tile.x <= px /\ px < tile.x + tile.w
           /\ tile.y <= py /\ py < tile.y + tile.h

\* the columns (rows) of the canvas at which the rectangles painted by s
\* begin or end, and the first one: between two of them every pixel lies in
\* the same rectangles
EdgeColumns(s) ==
    ({0} \cup {obs[s].tiles[i].x : i \in 1..Len(obs[s].tiles)}
         \cup {obs[s].tiles[i].x + obs[s].tiles[i].w : i \in 1..Len(obs[s].tiles)})
    \cap 0..(page.W - 1)

EdgeRows(s) ==
    ({0} \cup {obs[s].tiles[i].y : i \in 1..Len(obs[s].tiles)}
         \cup {obs[s].tiles[i].y + obs[s].tiles[i].h : i \in 1..Len(obs[s].tiles)})
    \cap 0..(page.H - 1)

\* C18: when the tiling of a page W x H with W >= w and H >= h is complete,
\* the viewport-sized rectangles painted at the read-back offsets cover every
\* pixel of the W x H canvas: there is no gap between tiles.
C18_NoGap ==
    \A s \in Slots :
        (TilingDone(s) /\ page.W >= page.w /\ page.H >= page.h) =>
            /\ sess[s].canvasW = page.W /\ sess[s].canvasH = page.H
            /\ \A px \in EdgeColumns(s), py \in EdgeRows(s) : Painted(s, px, py)

\* a complete tiling whose last column and last row were clamped
C18_Witness ==
    /\ TilingDone("A")
    /\ page = [W |-> 3, H |-> 3, w |-> 2, h |-> 2]
    /\ Len(obs["A"].tiles) = 4
    /\ EdgeColumns("A") = {0, 1, 2} /\ EdgeRows("A") = {0, 1, 2}

\* the steps of a tile that follow its scroll
TileSteps == <<"settle", "getScrollPosition", "captureVisiblePart", "loadImage">>

\* C19: the platform calls of a capture are strictly sequential: the scroll
\* of tile N+1 is issued only when the settle delay, the scroll read-back,
\* the snapshot and the paint of tile N are complete, and a step of a tile
\* has been called at most once more than the step that follows it (a call
\* that failed is counted, its tile is not painted).
C19_Sequential ==
    \A s \in Slots :
        sess[s].fullPage =>
            LET calls == obs[s].calls
                paints == Len(obs[s].tiles)
            IN /\ \A k \in 1..Len(TileSteps) :
                      /\ calls[TileSteps[k]] <= calls["scrollTo"]
                      /\ calls["scrollTo"] <= calls[TileSteps[k]] + 1
                      /\ k > 1 => calls[TileSteps[k]] <= calls[TileSteps[k - 1]]
               /\ paints <= calls["loadImage"]
               /\ calls["scrollTo"] <= paints + 1
               /\ sess[s].pc = "scrollTo" =>
                      /\ paints = calls["scrollTo"]
                      /\ \A k \in 1..Len(TileSteps) :
                             calls[TileSteps[k]] = calls["scrollTo"]

\* the scroll of the second tile has been issued
C19_Witness ==
    \E s \in Slots :
        /\ sess[s].fullPage
        /\ sess[s].pc = "settle"
        /\ obs[s].calls["scrollTo"] = 2
        /\ Len(obs[s].tiles) = 1

\* the calls s has made of a step, and the tiles it has painted
Calls(s, step) == obs[s].calls[step]
Paints(s) == Len(obs[s].tiles)

\* C20: the steps of a tile come in this order: scroll to the anchor, settle
\* delay, read-back of the scroll offset, hide of the fixed elements (from the
\* second tile on), snapshot, paint; and the tile is painted at the offset
\* read back, with the width and height of the viewport, not at the anchor
\* when the two differ.
C20_TileSteps ==
    \A s \in Slots :
        sess[s].fullPage =>
            /\ sess[s].pc = "settle" =>
                  Calls(s, "scrollTo") = Paints(s) + 1 /\ Calls(s, "settle") = Paints(s)
            /\ sess[s].pc = "getScrollPosition" =>
                  /\ Calls(s, "settle") = Paints(s) + 1
                  /\ Calls(s, "getScrollPosition") = Paints(s)
            /\ sess[s].pc = "hideFixedElementsAndScrollbars" =>
                  /\ Paints(s) >= 1
                  /\ Calls(s, "getScrollPosition") = Paints(s) + 1
                  /\ Calls(s, "hideFixedElementsAndScrollbars") = Paints(s) - 1
                  /\ Calls(s, "captureVisiblePart") = Paints(s)
            /\ sess[s].pc = "captureVisiblePart" =>
                  /\ Calls(s, "getScrollPosition") = Paints(s) + 1
                  /\ Calls(s, "hideFixedElementsAndScrollbars") = Paints(s)
                  /\ Calls(s, "captureVisiblePart") = Paints(s)
            /\ sess[s].pc = "loadImage" =>
                  /\ Calls(s, "captureVisiblePart") = Paints(s) + 1
                  /\ Calls(s, "loadImage") = Paints(s)
            /\ \A i \in 1..Paints(s) :
                  LET tile == obs[s].tiles[i]
                  IN /\ tile.x = tile.scrollpos.x /\ tile.y = tile.scrollpos.y
                     /\ tile.w = page.w /\ tile.h = page.h
                     /\ tile.hides = i - 1

\* a tile whose scroll was clamped: it is painted where the page stopped
C20_Witness ==
    \E s \in Slots :
        /\ sess[s].fullPage
        /\ \E i \in 1..Paints(s) :
              LET tile == obs[s].tiles[i]
              IN /\ tile.req # tile.scrollpos
                 /\ tile.x = tile.scrollpos.x /\ tile.y = tile.scrollpos.y

\* the phases of a capture, in the order of captureScreenshot
Phases ==
    <<"getActiveTabs", "getPageDimensions", "saveScrollPosition", "scrollTo",
      "restoreFixedElementsAndScrollbars", "restoreScrollPosition",
      "getDefaultFont", "download">>

\* the restore of the page state was called by the catch block, after a
\* call had failed
RestoredInCatch(s, step) ==
    step = "restoreFixedElementsAndScrollbars" /\ obs[s].failStep # ""

\* the header of s is being composited or has been
HeaderBegun(s) ==
    \/ sess[s].pc \in {"getDefaultFont", "downloadFile", "download"}
    \/ Calls(s, "getDefaultFont") > 0

\* C21: a capture goes through its phases in the order acquire target, save
\* scroll, tile loop, restore page state, add header, generate filename,
\* dispatch download: a phase is begun only when the phases before it have
\* been (but for the restore that follows a failure); the header is not
\* composited and the download not dispatched before both restore calls of
\* the session have completed; and a success result is returned only after
\* the download call succeeded.
C21_PhaseOrder ==
    \A s \in Slots :
        /\ sess[s].fullPage =>
              /\ \A k \in 2..Len(Phases) :
                    (Calls(s, Phases[k]) > 0 /\ ~RestoredInCatch(s, Phases[k]))
                        => Calls(s, Phases[k - 1]) > 0
              /\ HeaderBegun(s) =>
                    /\ Calls(s, "restoreFixedElementsAndScrollbars") = 1
                    /\ Calls(s, "restoreScrollPosition") = 1
                    /\ ~obs[s].restoreFailed
                    /\ sess[s].pc \notin {"restoreFixedElementsAndScrollbars",
                                         "restoreScrollPosition"}
        /\ Calls(s, "download") > 0 =>
              /\ Calls(s, "getDefaultFont") = 1
              /\ sess[s].filename # <<>>
              /\ Requested(s)
        /\ (sess[s].pc = "done" /\ sess[s].ret.success) =>
              /\ Calls(s, "download") = 1
              /\ obs[s].failStep = ""
              /\ sess[s].ret.downloadId # 0

\* a full-page capture of several tiles has returned success
C21_Witness ==
    \E s \in Slots :
        /\ sess[s].fullPage
        /\ sess[s].pc = "done" /\ sess[s].ret.success
        /\ Paints(s) > 1

\* C22: after the restore at the end of a session the document holds none of
\* the bookkeeping of the session: the saved styles of root and body, the
\* list of hidden fixed elements and the saved scroll offset are cleared.
C22_BookkeepingCleared ==
    \A s \in Slots :
        Restored(s) =>
            /\ ~win.stylesSet
            /\ win.fixedElements = <<>>
            /\ ~win.origSet

\* s makes a step in which its restoreFixedElementsAndScrollbars call
\* succeeds
RestoreFixedStep(s) ==
    /\ sess[s].pc \in {"restoreFixedElementsAndScrollbars", "catchRestoreFixed"}
    /\ sess'[s].pc \in {"restoreScrollPosition", "catchRestoreScroll"}

\* the styles of root and body and the display of every element stay
StylesKept ==
    /\ htmlCss' = htmlCss
    /\ bodyCss' = bodyCss
    /\ elStyle' = elStyle

\* C23: a restoreFixedElementsAndScrollbars call of a session that never
\* called hideFixedElementsAndScrollbars is a no-op: it succeeds and leaves
\* the styles of root and body and the display of every element unchanged.
C23_RestoreWithoutHide ==
    [][\A s \in Slots :
          (RestoreFixedStep(s) /\ HidesDone(s) = 0) => StylesKept]_vars

\* C23 as the code has it: a restoreFixedElementsAndScrollbars call is a no-op
\* when the document holds no saved styles, that is when no session has called
\* hideFixedElementsAndScrollbars since the last restore that succeeded; it
\* succeeds and leaves the styles of root and body, the display of every
\* element and the globals of the window unchanged.
C23_RestoreWithoutSavedStyles ==
    [][\A s \in Slots :
          (RestoreFixedStep(s) /\ ~win.stylesSet) =>
              StylesKept /\ win' = win /\ elProp' = elProp]_vars

\* the restore of a capture of a single-tile page, which has not called hide,
\* has succeeded
C23_Witness ==
    \E s \in Slots :
        /\ sess[s].fullPage
        /\ GridSize(page) = 1
        /\ Calls(s, "hideFixedElementsAndScrollbars") = 0
        /\ Calls(s, "restoreFixedElementsAndScrollbars") = 1
        /\ sess[s].pc = "restoreScrollPosition"
        /\ ~win.stylesSet

\* s is in its tile loop and has hidden the fixed elements
Hiding(s) ==
    /\ sess[s].fullPage
    /\ HidesDone(s) >= 1
    /\ sess[s].pc \in {"scrollTo", "settle", "getScrollPosition",
                       "hideFixedElementsAndScrollbars", "captureVisiblePart",
                       "loadImage", "restoreFixedElementsAndScrollbars"}

\* each element is recorded at most once, with the display the page gave it
RecordedOnce ==
    /\ \A i, j \in 1..Len(win.fixedElements) :
          win.fixedElements[i].element = win.fixedElements[j].element => i = j
    /\ \A i \in 1..Len(win.fixedElements) :
          LET item == win.fixedElements[i]
          IN /\ Position[item.element] = "fixed"
             /\ item.originalDisplay = ComputedDisplay(InitialStyle, item.element)
             /\ item.originalDisplay # "none"

\* C24: whatever the number of hideFixedElementsAndScrollbars calls of a
\* session, each fixed element is recorded at most once, with the display it
\* had before it was first hidden, and the styles of root and body are saved
\* by the first call only: they are the styles the document had before the
\* session, never the overflow: hidden ones.
C24_HideRecordsOnce ==
    \A s \in Slots :
        Hiding(s) =>
            /\ win.stylesSet
            /\ RecordedOnce
            /\ win.html = obs[s].start.htmlCss
            /\ win.body = obs[s].start.bodyCss
            /\ win.html.overflow # "hidden" /\ win.body.overflow # "hidden"

\* C24 as the code has it: each fixed element is recorded at most once, with
\* the display it had before it was first hidden, and the styles of root and
\* body are saved only by the first hide call since the last restore that
\* succeeded: they are the styles the page gave the document, never the
\* overflow: hidden ones, and they are the styles the document had before the
\* session unless an earlier session left the document hidden.
C24_HideRecordsOnceSinceRestore ==
    \A s \in Slots :
        Hiding(s) =>
            /\ win.stylesSet
            /\ RecordedOnce
            /\ win.html = InitialHtmlCss /\ win.body = InitialBodyCss
            /\ win.html.overflow # "hidden" /\ win.body.overflow # "hidden"
            /\ obs[s].start.htmlCss.overflow # "hidden" =>
                  win.html = obs[s].start.htmlCss /\ win.body = obs[s].start.bodyCss

\* a session has called hide twice and both fixed elements are recorded
C24_Witness ==
    \E s \in Slots :
        /\ Hiding(s)
        /\ HidesDone(s) >= 2
        /\ Len(win.fixedElements) = 2

RestoreCalls == {"restoreFixedElementsAndScrollbars", "restoreScrollPosition"}

\* s, a full-page session of which a call has failed, makes a step
StepAfterFailure(s) ==
    /\ sess[s].fullPage
    /\ obs[s].failStep # ""
    /\ obs'[s].failStep # ""

\* the steps s calls in this step
CalledNow(s) == {step \in Steps : obs'[s].calls[step] # obs[s].calls[step]}

\* C25: once a platform call of a full-page session has failed, the session
\* makes no further scroll, hide or snapshot call and no download: the only
\* calls it makes afterwards are the restore calls, and the call that failed
\* is not made again.
C25_NoCallAfterFailure ==
    [][\A s \in Slots :
          StepAfterFailure(s) =>
              /\ CalledNow(s) \subseteq RestoreCalls
              /\ obs[s].failStep \notin CalledNow(s)]_vars

\* C25 as the code has it: once a platform call of a full-page session has
\* failed, the only calls the session makes afterwards are the two restore
\* calls of the catch block, each once; a call of the tile loop that failed is
\* not made again, a restore call that failed after the loops is.
C25_OnlyCatchRestoreAfterFailure ==
    [][\A s \in Slots :
          StepAfterFailure(s) =>
              /\ CalledNow(s) \subseteq RestoreCalls
              /\ CalledNow(s) # {} =>
                    /\ sess[s].pc \in {"catchRestoreFixed", "catchRestoreScroll"}
                    /\ sess'[s].pc \in {"catchRestoreScroll", "done"}
              /\ obs[s].failStep \in CalledNow(s) =>
                    /\ obs[s].failStep \in RestoreCalls
                    /\ obs'[s].calls[obs[s].failStep] = 2]_vars

\* a snapshot of the second tile failed and the catch block has made both
\* restore calls
C25_Witness ==
    \E s \in Slots :
        /\ sess[s].fullPage
        /\ obs[s].failStep = "captureVisiblePart"
        /\ Paints(s) = 1
        /\ sess[s].pc = "done"
        /\ Calls(s, "restoreFixedElementsAndScrollbars") = 1
        /\ Calls(s, "restoreScrollPosition") = 1

\* a download started with the dialog reaches the state complete
DialogDownloadCompletes ==
    \E id \in DOMAIN downloads :
        /\ downloads[id].saveAs
        /\ downloads[id].state = "in_progress"
        /\ downloads'[id].state = "complete"

\* C26: a capture that ends in failure writes nothing to the store: none of
\* its steps changes lastDownloadFolder, saveDestination or
\* pendingDownloadId; and the background script (the captures and the
\* downloads listener) writes lastDownloadFolder and saveDestination only when
\* a download it started with saveAs = true has reached the state complete.
C26_StoreWrites ==
    [][/\ \A s \in Slots :
             (sess'[s] # sess[s] /\ ~(sess'[s].pc = "done" /\ sess'[s].ret.success))
                 => store' = store
       /\ store'.lastDownloadFolder # store.lastDownloadFolder
             => DialogDownloadCompletes
       /\ ((sess' # sess \/ downloads' # downloads)
              /\ store'.saveDestination # store.saveDestination)
             => DialogDownloadCompletes]_vars

\* a capture has failed at its download call after a folder had been stored:
\* the store is as the capture found it
C26_Witness ==
    \E s \in Slots :
        /\ sess[s].pc = "done" /\ ~sess[s].ret.success
        /\ obs[s].failStep = "download"
        /\ store.lastDownloadFolder # <<>>
        /\ store = obs[s].start.store

\* the cleaned source segment of the filename of s
Segment(s) == SubSeq(sess[s].filename, 26, Len(sess[s].filename) - 4)

\* C27: for every url the cleaned source segment holds only characters of
\* [A-Za-z0-9_.-], holds no two underscores in a row and is at most 100
\* characters long.
C27_CleanSegment ==
    \A s \in Slots :
        Named(s) =>
            /\ Segment(s) = cleanUrlForFilename(tab.url, maxLength)
            /\ \A i \in 1..Len(Segment(s)) : Segment(s)[i] \in SegmentChars
            /\ \A i \in 1..(Len(Segment(s)) - 1) :
                  ~(Segment(s)[i] = "_" /\ Segment(s)[i + 1] = "_")
            /\ Len(Segment(s)) <= 100

\* the segment of a text longer than 100 characters that held characters to
\* replace
C27_Witness ==
    \E s \in Slots :
        /\ Named(s)
        /\ Len(tab.url.href) > 100
        /\ \E i \in 1..Len(tab.url.href) : tab.url.href[i] \notin SegmentChars
        /\ Len(Segment(s)) = 100
        /\ \E i \in 1..100 : Segment(s)[i] = "_"

\* the url line of the header of s fits the band
Fits(text, s) == measureText(text) <= availableWidth(sess[s].headerW)

\* text ends with the ellipsis
Elided(text) ==
    /\ Len(text) >= Len(ellipsis)
    /\ SubSeq(text, Len(text) - Len(ellipsis) + 1, Len(text)) = ellipsis

\* C28: the truncation of the header url is idempotent: a url that fits the
\* available width (canvas width minus 20) is displayed unchanged, and so is
\* the displayed text itself, an ellipsis-terminated output of the truncation
\* included.
C28_TruncationIdempotent ==
    \A s \in Slots :
        Headed(s) =>
            /\ Fits(tab.url.href, s) => sess[s].displayUrl = tab.url.href
            /\ displayUrl(sess[s].displayUrl, sess[s].headerW) = sess[s].displayUrl

\* a url was cut to a prefix and the ellipsis, and the result fits
C28_Witness ==
    \E s \in Slots :
        /\ Headed(s)
        /\ sess[s].displayUrl # tab.url.href
        /\ Elided(sess[s].displayUrl)
        /\ Len(sess[s].displayUrl) > Len(ellipsis)
        /\ Fits(sess[s].displayUrl, s)
        /\ displayUrl(sess[s].displayUrl, sess[s].headerW) = sess[s].displayUrl

\* the lengths of the prefixes of text that fit the band of s together with
\* the ellipsis
FittingPrefixes(text, s) ==
    {k \in 0..Len(text) :
        measureText(SubSeq(text, 1, k)) + measureText(ellipsis)
            <= availableWidth(sess[s].headerW)}

\* the largest number of a non-empty set of numbers
Largest(S) == CHOOSE k \in S : \A j \in S : j <= k

\* C29: a url wider than the available width is displayed as its longest
\* prefix whose width plus the width of the ellipsis does not exceed the
\* available width, followed by the ellipsis; the loop ends (with the bare
\* ellipsis when no prefix fits), and the displayed text fits the available
\* width whenever the ellipsis alone fits.
C29_LongestPrefix ==
    \A s \in Slots :
        (Headed(s) /\ ~Fits(tab.url.href, s)) =>
            LET fitting == FittingPrefixes(tab.url.href, s)
                shown == sess[s].displayUrl
            IN /\ fitting # {} =>
                    shown = SubSeq(tab.url.href, 1, Largest(fitting)) \o ellipsis
               /\ fitting = {} => shown = ellipsis
               /\ Fits(ellipsis, s) => Fits(shown, s)

\* a url was cut to a prefix of two characters or more, and one more
\* character would not have fitted
C29_Witness ==
    \E s \in Slots :
        /\ Headed(s)
        /\ ~Fits(tab.url.href, s)
        /\ Len(sess[s].displayUrl) >= Len(ellipsis) + 2
        /\ Len(sess[s].displayUrl) < Len(tab.url.href) + Len(ellipsis)
        /\ Fits(sess[s].displayUrl, s)

\* the popup receives the outcome of its capture request in this step
Answered == popup.open /\ popup.waiting /\ popup'.open /\ ~popup'.waiting

\* C30: when the response to a capture request is a failure, or the message
\* could not be sent, the popup shows the error message and enables both
\* capture buttons again; on a success the buttons are left disabled, and
\* they stay disabled until the popup closes.
C30_PopupResponse ==
    [][/\ Answered =>
            IF popup.lastError
            THEN /\ popup'.status.key = "error"
                 /\ ~popup'.disabled
            ELSE IF LastResponse.success
            THEN /\ popup'.status.key = "screenshotSaved"
                 /\ popup'.disabled
            ELSE /\ popup'.status = Status("error", LastResponse.message)
                 /\ ~popup'.disabled
       /\ (popup.open /\ popup.status.key = "screenshotSaved" /\ popup'.open) =>
            popup'.disabled]_vars

\* the popup shows the error of a capture that failed and can capture again
C30_Witness ==
    /\ popup.open
    /\ ~popup.waiting
    /\ sess["A"].pc = "done"
    /\ ~LastResponse.success
    /\ popup.status = Status("error", LastResponse.message)
    /\ LastResponse.message # ""
    /\ ~popup.disabled

\* the popup sends a capture request in this step
Sends == popup.open /\ popup'.open /\ remaining' < remaining

\* C31: from the moment the popup sends a capture request until its response
\* arrives both capture buttons are disabled, so a popup never has two
\* capture requests outstanding: a popup that waits for a response sends no
\* request.
C31_OneOutstandingRequest ==
    [][/\ (popup.open /\ popup.waiting) => (popup.disabled /\ ~Sends)
       /\ Sends => (popup'.waiting /\ popup'.disabled)
       /\ (popup.open /\ popup.waiting /\ popup'.open /\ popup'.waiting) =>
             popup'.disabled]_vars

\* the popup waits for the response of a capture that is taking its tiles
C31_Witness ==
    /\ popup.open
    /\ popup.waiting
    /\ popup.disabled
    /\ sess["A"].pc = "captureVisiblePart"
    /\ sess["A"].fullPage

\* C32: every snapshot painted into the canvas of a session is a snapshot of
\* the tab the session acquired at its start, the tab it scrolls and hides
\* elements in, even if the active tab of the window changes while the
\* session is in flight.
C32_SnapshotOfAcquiredTab ==
    \A s \in Slots :
        \A i \in 1..Len(obs[s].tiles) : obs[s].tiles[i].img.of = "acquired"

ParentFolderName(path) ==
    LET sep == IF \E i \in 1..Len(path) : path[i] = "/" THEN "/" ELSE "\\"
        seps == {i \in 1..Len(path) : path[i] = sep}
        last == CHOOSE i \in seps : \A j \in seps : j <= i
        before == {i \in seps : i < last}
        start == IF before = {} THEN 0
                 ELSE CHOOSE i \in before : \A j \in before : j <= i
    IN IF seps = {} THEN <<>> ELSE SubSeq(path, start + 1, last - 1)

\* the download id, started through the dialog, is complete in this step and
\* its file lies in a named folder
CompletesInFolder(id) ==
    /\ downloads[id].saveAs
    /\ downloads[id].state = "in_progress"
    /\ downloads'[id].state = "complete"
    /\ ParentFolderName(downloads'[id].path) # <<>>

\* C34: every download started with saveAs = true that is complete with its
\* file in a named folder sets lastDownloadFolder to the name of that folder
\* and saveDestination to 'current', whatever other downloads of the dialog
\* are in flight.
C34_CompletedFolderStored ==
    [][\A id \in DOMAIN downloads :
          CompletesInFolder(id) =>
              /\ store'.lastDownloadFolder = ParentFolderName(downloads'[id].path)
              /\ store'.saveDestination = "current"]_vars

\* C35: every pendingDownloadId written to the store is removed once the
\* download it names has reached a final state (complete or interrupted): no
\* pendingDownloadId names a download that has ended.
C35_NoStalePendingId ==
    store.pendingDownloadId # 0 =>
        /\ store.pendingDownloadId \in DOMAIN downloads
        /\ downloads[store.pendingDownloadId].state = "in_progress"

\* the calls that scroll the page, hide its fixed elements or restore it
PageChangingSteps ==
    {"scrollTo", "hideFixedElementsAndScrollbars",
     "restoreFixedElementsAndScrollbars", "restoreScrollPosition"}

\* s is a capture of the visible page that has started
VisibleCapture(s) == sess[s].pc # "idle" /\ ~sess[s].fullPage

\* C36: a capture of the visible page takes exactly one snapshot and never
\* changes the page: it makes no scroll, hide or restore call, whether it
\* succeeds or fails, the page stays as the capture found it, and its output
\* canvas is (tab width, tab height + 50).
C36_VisibleCapture ==
    \A s \in Slots :
        VisibleCapture(s) =>
            /\ \A step \in PageChangingSteps : Calls(s, step) = 0
            /\ Calls(s, "captureVisiblePart") <= 1
            /\ (Headed(s) \/ sess[s].ret.success) =>
                  /\ Calls(s, "captureVisiblePart") = 1
                  /\ Paints(s) = 1
            /\ scroll = obs[s].start.scroll
            /\ htmlCss = obs[s].start.htmlCss
            /\ bodyCss = obs[s].start.bodyCss
            /\ ShownFixed(elStyle) = obs[s].start.shown
            /\ Headed(s) =>
                  /\ sess[s].headerW = page.w
                  /\ sess[s].headerH = page.h + 50

\* a capture of the visible part of a page that the user had scrolled has
\* been downloaded
C36_Witness ==
    \E s \in Slots :
        /\ VisibleCapture(s)
        /\ sess[s].pc = "done"
        /\ sess[s].ret.success
        /\ scroll # [x |-> 0, y |-> 0]
        /\ page.W > page.w
        /\ Len(obs[s].tiles) = 1

\* the rectangle of tile lies inside the canvas of s
InsideCanvas(s, tile) ==
    /\ 0 <= tile.x /\ tile.x + tile.w <= sess[s].canvasW
    /\ 0 <= tile.y /\ tile.y + tile.h <= sess[s].canvasH

\* C37: every tile of a full-page capture of a page W x H with W >= w and
\* H >= h, the page clamping scroll offsets to at most (W-w, H-h), is painted
\* entirely inside the W x H canvas: no rectangle reaches past the right or
\* the bottom edge, also when W or H is no multiple of the viewport size.
C37_TilesInsideCanvas ==
    \A s \in Slots :
        (sess[s].fullPage /\ page.W >= page.w /\ page.H >= page.h) =>
            \A i \in 1..Len(obs[s].tiles) :
                /\ sess[s].canvasW = page.W /\ sess[s].canvasH = page.H
                /\ InsideCanvas(s, obs[s].tiles[i])

\* tiles of a page that is no multiple of the viewport were asked for past
\* the scroll range, one on each axis, and the last one is painted against
\* the right and the bottom edge
C37_Witness ==
    LET tiles == obs["A"].tiles
    IN /\ sess["A"].fullPage
       /\ page.W % page.w # 0 /\ page.H % page.h # 0
       /\ page.W > page.w /\ page.H > page.h
       /\ \E i \in 1..Len(tiles) : tiles[i].req.x > tiles[i].x
       /\ \E i \in 1..Len(tiles) :
             /\ tiles[i].req.y > tiles[i].y
             /\ tiles[i].x + tiles[i].w = page.W
             /\ tiles[i].y + tiles[i].h = page.H

\* s is in saveScreenshot, between createObjectURL and the end of the
\* download call
Saving(s) == sess[s].pc \in {"downloadFile", "download"}

\* C38: the blob url created for a download is revoked exactly once on every
\* path out of saveScreenshot, whether the download call succeeds or fails,
\* and a failed download is thrown on, so that the capture answers
\* {success: false, message}.
C38_BlobUrlRevokedOnce ==
    \A s \in Slots :
        /\ obs[s].created <= 1
        /\ Saving(s) => (obs[s].created = 1 /\ obs[s].revoked = 0)
        /\ ~Saving(s) => obs[s].revoked = obs[s].created
        /\ Calls(s, "download") > 0 => obs[s].revoked = 1
        /\ (sess[s].pc = "done" /\ obs[s].failStep = "download") =>
              /\ sess[s].sent =
                    <<[success |-> FALSE, message |-> ErrorMessage("download"),
                       downloadId |-> 0]>>
              /\ obs[s].revoked = 1

\* the download call of a capture failed and its blob url is revoked
C38_Witness ==
    \E s \in Slots :
        /\ sess[s].pc = "done"
        /\ obs[s].failStep = "download"
        /\ obs[s].created = 1
        /\ obs[s].revoked = 1
        /\ ~sess[s].ret.success

====
